---- MODULE Spec2Model ----
(***************************************************************************)
(* Multi-camera acquisition and frame-processing pipeline.                 *)
(*                                                                         *)
(*   SpecPF   process_frame (src/app.py) run by concurrent request         *)
(*            handlers: the frame cache, the per-key locks, the camera     *)
(*            read and the threat stage with its inference lock and cache. *)
(*   SpecCam  one CameraStream (src/utils/camera_manager.py): start, stop, *)
(*            the acquisition loops it launches and the capture device.    *)
(*                                                                         *)
(* Time is a discrete clock; one tick is 0.2 s, so FRAME_CACHE_TTL (0.2 s) *)
(* is 1 tick and the threat stage's cache_ttl (0.4 s) is 2 ticks.          *)
(***************************************************************************)
EXTENDS Integers, FiniteSets, Sequences, TLC

\* ------------------------------------------------------------------ bounds
MaxTime == 2
\* start() and stop() calls in a run of SpecCam
MaxCalls == 2

\* ------------------------------------------------------- program constants
FRAME_CACHE_TTL == 1
cache_ttl == 2
\* the failed reads after which the acquisition loop sleeps and starts over
MaxConsecutiveFailures == 10

\* the request handlers (server threads running process_frame)
Threads == {1, 2}
Cameras == {0, 1}
Stages == {"crowd", "face", "weapon", "all"}
Keys == Cameras \X Stages
\* calls of process_frame in a run: one per handler and one more
MaxReq == Cardinality(Threads) + 1
\* the (camera_id, detection_type) pairs the request handlers ask for
Requests == {<<0, "crowd">>, <<0, "weapon">>, <<0, "all">>, <<1, "face">>}

settings ==
  [ enable_crowd_detection |-> TRUE, enable_face_recognition |-> TRUE,
    enable_weapon_detection |-> TRUE, show_overlays |-> TRUE ]

\* A frame is the camera it was read from and the set of stages that drew on
\* it; the placeholder image carries the tag "placeholder".
NoFrame == [cam |-> -1, ann |-> {}]
RawFrame(c) == [cam |-> c, ann |-> {}]
Placeholder(c) == [cam |-> c, ann |-> {"placeholder"}]
Draw(f, tag) == [f EXCEPT !.ann = @ \cup {tag}]

NoEntry == [frame |-> NoFrame, timestamp |-> -1]
NoBucket == [s \in Stages |-> NoEntry]
NoWCache == [frame |-> NoFrame, timestamp |-> -1]

NoRet == [how |-> "none", key |-> <<-1, "none">>, together |-> FALSE, ph |-> FALSE]
IdleThread ==
  [ pc |-> "idle", key |-> <<-1, "none">>, now |-> -1, lock |-> 0, frame |-> NoFrame ]

\* ---- CameraStream
\* the threads that call start() and stop() on the stream
Callers == {1, 2}
\* the camera id of the stream SpecCam follows
StreamId == 0
\* the acquisition loops a run can launch: at most one per call
LoopIds == 1..MaxCalls
NoLoop == [pc |-> "none", fails |-> 0, ts |-> -1]
NewLoop == [pc |-> "L82", fails |-> 0, ts |-> -1]
DoneLoop == [pc |-> "done", fails |-> 0, ts |-> -1]
\* the threads that call CameraStream.read() on the stream
Readers == {1, 2}
\* a reader's call: got is the capture time of the frame its last call
\* returned (-1: None, or no call yet)
IdleReader == [pc |-> "idle", got |-> -1]
\* a caller's call: op and pc say where it is; opened is what its open attempt
\* gave ("none" before), setrun and launched whether it set the running flag
\* and how many loops it launched, result what it returned, timedout whether
\* its join timed out, alone whether no other call ran during it
IdleCall ==
  [ op |-> "none", pc |-> "idle", opened |-> "none", setrun |-> FALSE, launched |-> 0,
    result |-> "none", timedout |-> FALSE, alone |-> TRUE ]

VARIABLES
  clock,             \* time.time(), in ticks
  processed_frames,  \* camera id -> bucket (stage -> entry); buckets holds its keys
  buckets,           \* the camera ids processed_frames has a bucket for
  frame_locks,       \* key -> 0 (no lock object yet) or the id of its lock object
  lock_holder,       \* lock object <<key, id>> -> 0 (free) or the thread holding it
  th,                \* each request handler's position and locals
  ret,               \* what each handler's last process_frame call returned
  nreq,              \* process_frame calls started so far
  cameras,           \* camera_manager.cameras: the registered camera ids
  slot,              \* CameraStream.frame per camera: FALSE = None
  camLock,           \* CameraStream.lock per camera: 0 or the reader holding it
  model_loaded,      \* WeaponDetector.model_loaded
  inference_lock,    \* WeaponDetector.inference_lock: 0 or the holder
  wcache,            \* WeaponDetector.cache: camera id -> cached result
  running,           \* CameraStream.running
  cap,               \* CameraStream.cap: "none" (None), "open" or "closed" (not opened)
  thread,            \* CameraStream.thread: 0 (None) or the number of the loop it refers to
  loops,             \* the acquisition loops launched so far: position and failure counter
  call,              \* each caller's start() or stop() call: position and record
  ncalls,            \* start() and stop() calls made so far
  frame_ts,          \* CameraStream.frame: -1 (None) or the time the stored frame was read
  last_update,       \* CameraStream.last_update
  paired,            \* frame and last_update were written by the same critical section
  rd,                \* each reader's CameraStream.read() call: position and record
  streams,           \* camera_manager.cameras: camera id -> the registered stream
  initialized,       \* CameraManager.initialized
  nstreams,          \* CameraStream objects constructed by add_camera so far
  mgr,               \* the CameraManager call in progress or last returned
  nops,              \* CameraManager calls made so far
  boxes,             \* _non_max_suppression: the list of boxes (x, y, w, h) it is given
  order,             \* _non_max_suppression: areas.argsort()[::-1], as positions in boxes
  keep,              \* _non_max_suppression: the positions kept, in the order kept
  kept,              \* what _non_max_suppression(boxes) returned
  again,             \* what _non_max_suppression(kept) returned
  passes,            \* how many of the two calls were made
  original_shape,    \* _map_rotated_rect: << h, w >> of the frame
  rect,              \* _map_rotated_rect: the rectangle (x, y, rw, rh) found in the rotated frame
  rotation,          \* _map_rotated_rect: "cw", "ccw" or anything else
  mapped,            \* what _map_rotated_rect returned; << >> before the call
  tracked,           \* the camera ids CrowdDetector.recent_counts has a list for
  recent_counts,     \* CrowdDetector.recent_counts: camera id -> list of raw counts
  current_counts,    \* CrowdDetector.current_counts: camera id -> smoothed count
  arrived,           \* camera id -> every raw count appended so far, in order
  det,               \* each pipeline's detect_faces call: position and locals
  ndet,              \* detect_faces calls made so far
  threshold_arg,     \* the match_threshold FaceRecognizer was constructed with
  match_threshold,   \* FaceRecognizer.match_threshold
  engine,            \* FaceRecognizer.engine: "facenet" or "template"
  face_cascade,      \* FaceRecognizer.face_cascade: FALSE = None
  reference_embedding,    \* 0 (None) or the upload that stored it
  reference_template,     \* likewise
  reference_descriptors,  \* likewise
  reference_histogram,    \* likewise
  reference_name,    \* 0 ("Unknown") or the upload whose name it is
  fc,                \* each caller's FaceRecognizer call: position and locals
  nface,             \* FaceRecognizer calls made so far
  wd,                \* each pipeline's detect_weapons call: position and locals
  nwd,               \* detect_weapons calls made so far
  invoked            \* camera id -> the backend invocations that returned, in order

pfVars ==
  << clock, processed_frames, buckets, frame_locks, lock_holder, th, ret, nreq,
     cameras, slot, camLock, model_loaded, inference_lock, wcache >>

camVars == << running, cap, thread, loops, call, ncalls >>

rdVars == << frame_ts, last_update, paired, rd >>

mgrVars == << streams, initialized, nstreams, mgr, nops >>

\* what process_frame and the stream's methods never touch
nmsVars == << boxes, order, keep, kept, again, passes >>

rotVars == << original_shape, rect, rotation, mapped >>

crowdVars == << tracked, recent_counts, current_counts, arrived, det, ndet >>

refVars ==
  << reference_embedding, reference_template, reference_descriptors,
     reference_histogram, reference_name >>

faceVars == << threshold_arg, match_threshold, engine, face_cascade, refVars, fc, nface >>

wdVars == << wd, nwd, invoked >>

extVars == << mgrVars, nmsVars, rotVars, crowdVars, faceVars, wdVars >>

\* what process_frame leaves alone, and what start, stop and the loop do
pfElse == << camVars, rdVars, extVars >>
camElse == << pfVars, rdVars, extVars >>

vars == << pfVars, camVars, rdVars, extVars >>

\* ------------------------------------------------- CameraManager: records
MaxOps == 3      \* CameraManager calls made in one run
MaxChunks == 2   \* comma-separated chunks of a configuration string

\* a chunk of a configuration string: blank after strip(), or an entry
Chunks == {"blank", "entry"}
\* source_config: <<>> is the empty string, which has no chunk at all
Configs == UNION {[1..n -> Chunks] : n \in 0..MaxChunks}

\* the ids of the default cameras (lines 176 and 180)
MainCamera == 0
ExternalCamera == 1
DefaultIds == {MainCamera, ExternalCamera}
MgrIds == DefaultIds \cup (0 .. MaxChunks - 1)

NoStream == [obj |-> 0, op |-> 0, chunk |-> 0, started |-> FALSE, running |-> FALSE]
MgrOps == {"add_camera", "stop_all", "initialize_default_cameras", "initialize_from_sources"}
IdleMgr ==
  [op |-> "none", pc |-> "idle", cfg |-> << >>, id |-> 0, idx |-> 0, success |-> FALSE,
   start |-> "not called", added |-> FALSE, began |-> {}, before |-> {},
   result |-> FALSE]

\* CameraManager.__init__ (lines 135-137)
MgrInit ==
  /\ streams = [i \in MgrIds |-> NoStream]
  /\ initialized = FALSE
  /\ nstreams = 0
  /\ mgr = IdleMgr
  /\ nops = 0

\* --------------------------------------------------- CrowdDetector: records
\* no call of _non_max_suppression or _map_rotated_rect made or prepared
NmsIdle ==
  /\ boxes = << >>
  /\ order = << >>
  /\ keep = << >>
  /\ kept = << >>
  /\ again = << >>
  /\ passes = 0

RotIdle ==
  /\ original_shape = << 1, 1 >>
  /\ rect = << 0, 0, 1, 1 >>
  /\ rotation = "none"
  /\ mapped = << >>

\* the pipelines of process_frame that call detect_faces (lines 140 and 165)
DetCallers == {"crowd", "all"}
IdleDet ==
  [pc |-> "idle", cam |-> 0, count |-> 0, smoothed |-> 0, at |-> 0, ret |-> 0,
   raised |-> FALSE]

\* CrowdDetector.__init__, lines 44-46
CrowdInit ==
  /\ tracked = {}
  /\ recent_counts = [c \in Cameras |-> << >>]
  /\ current_counts = [c \in Cameras |-> 0]
  /\ arrived = [c \in Cameras |-> << >>]
  /\ det = [p \in DetCallers |-> IdleDet]
  /\ ndet = 0

\* ------------------------------------------------- FaceRecognizer: records
\* a float: not-a-number, or a number given in hundredths
Num(k) == [nan |-> FALSE, v |-> k]
NaN == [nan |-> TRUE, v |-> 0]

\* a > b and a < b on floats: False whenever one of them is not a number
Greater(a, b) == ~a.nan /\ ~b.nan /\ a.v > b.v
Less(a, b) == ~a.nan /\ ~b.nan /\ a.v < b.v

\* Python's max(a, b) and min(a, b): the first argument unless the second
\* is greater (less)
PyMax(a, b) == IF Greater(b, a) THEN b ELSE a
PyMin(a, b) == IF Less(b, a) THEN b ELSE a

\* the 0.4 and 0.9 of line 28
ThresholdMin == 40
ThresholdMax == 90

\* line 28: float(min(max(match_threshold, 0.4), 0.9))
Clamp(t) == PyMin(PyMax(t, Num(ThresholdMin)), Num(ThresholdMax))

\* the threshold of src/app.py line 74, one below and one above the range
AppThreshold == 65
LowThreshold == 30
HighThreshold == 95
ThresholdArgs == {Num(LowThreshold), Num(AppThreshold), Num(HighThreshold), NaN}

FaceCallers == {1, 2}
FaceOps == {"upload_reference_face", "clear_reference", "detect_and_match"}
IdleFace ==
  [op |-> "none", pc |-> "idle", id |-> 0, result |-> FALSE, wrote |-> FALSE,
   checked |-> FALSE, stored |-> FALSE, ran |-> FALSE, computed |-> FALSE,
   copied |-> FALSE, faces |-> 0, match |-> FALSE, sig |-> 0, label |-> 0,
   ratio |-> FALSE, hist |-> FALSE, raised |-> FALSE]

\* FaceRecognizer.__init__ (lines 22-61) called with the threshold t, the
\* FaceNet model loaded or not and the Haar cascade loaded or not
FaceConstructed(t, facenet, cascade) ==
  /\ threshold_arg = t
  /\ match_threshold = Clamp(t)
  /\ engine = IF facenet THEN "facenet" ELSE "template"
  /\ face_cascade = cascade
  /\ reference_embedding = 0
  /\ reference_template = 0
  /\ reference_descriptors = 0
  /\ reference_histogram = 0
  /\ reference_name = 0
  /\ fc = [c \in FaceCallers |-> IdleFace]
  /\ nface = 0

\* the recognizer of src/app.py line 74
FaceInit == FaceConstructed(Num(AppThreshold), TRUE, TRUE)

\* ------------------------------------------------- WeaponDetector: records
\* the pipelines that call detect_weapons: 1 is 'weapon', 2 is 'all'
WdCallers == {1, 2}
WeaponPipeline == 1
AllPipeline == 2

\* the frame process_frame hands to detect_weapons in call k for camera c:
\* a copy of the camera's frame, for 'all' with what detect_faces and
\* detect_and_match drew on it (src/app.py lines 136, 151, 161-173)
InputFrame(p, c, k) ==
  [cam |-> c, ann |-> IF p = AllPipeline THEN {"crowd", "face"} ELSE {}, id |-> k]
NoInput == [cam |-> -1, ann |-> {}, id |-> 0]

IdleWd ==
  [pc |-> "idle", cam |-> -1, frame |-> NoInput, at |-> -1, out |-> NoInput,
   weapon_detected |-> FALSE, detections |-> 0, looked |-> FALSE, hit |-> FALSE,
   locked |-> FALSE, ran |-> FALSE, failed |-> FALSE]

WdInit ==
  /\ wd = [p \in WdCallers |-> IdleWd]
  /\ nwd = 0
  /\ invoked = [c \in Cameras |-> << >>]

ExtInit == MgrInit /\ NmsIdle /\ RotIdle /\ CrowdInit /\ FaceInit /\ WdInit

\* ---------------------------------------------------------------- helpers
CamOf(t) == th[t].key[1]
StageOf(t) == th[t].key[2]

FreshAtNoTTL(e, now) == e # NoEntry

\* cached and (now - cached['timestamp']) <= FRAME_CACHE_TTL
FreshAt(e, now) == e # NoEntry /\ (now - e.timestamp) <= FRAME_CACHE_TTL

\* the numbers of the lock objects a key can have
LockIds == 1..MaxReq

LockKeyCameraOnly(c, s) == <<c, "all">>

\* the key frame_locks is indexed by: (camera_id, detection_type)
LockKey(c, s) == <<c, s>>

SetLockOverwrite(k, t) == [frame_locks EXCEPT ![k] = @ + 1]

\* frame_locks.setdefault(key, Lock()): the caller's new lock object is stored
\* only when the key has none. The lock objects stored for a key are numbered
\* 1, 2, ... in the order they are stored, so a key only ever has object 1.
SetDefaultLock(k, t) ==
  IF frame_locks[k] = 0 THEN [frame_locks EXCEPT ![k] = 1] ELSE frame_locks

\* the lock object thread t obtained at line 113
LockObj(t) == <<LockKey(CamOf(t), StageOf(t)), th[t].lock>>

Entry(c, s) == processed_frames[c][s]

\* the record of a call: how it ended ("pending" while it runs) and whether the
\* image it returned is the placeholder; key and together (the call arrived at
\* the same instant as the calls before it) are set when the call starts
Returned(t, how, e) ==
  ret' = [ret EXCEPT ![t].how = how, ![t].ph = ("placeholder" \in e.frame.ann)]

\* lines 136-159: the branch taken for the stage
StagePc(s) ==
  CASE s = "crowd" /\ settings.enable_crowd_detection -> "L140"
    [] s = "face" /\ settings.enable_face_recognition -> "L145"
    [] s = "weapon" /\ settings.enable_weapon_detection -> "W102"
    [] s = "all" -> "L165"
    [] OTHER -> "L180"

\* every call made so far arrived at this instant: it sampled the present time
\* at line 108 and is still at its first check
ArrivedTogether(t) ==
  \A u \in Threads \ {t} : ret[u].how = "none" \/ (th[u].pc = "L109" /\ th[u].now = clock)

\* ------------------------------------------------------------ process_frame
\* lines 107-108: the bucket is created on first use, the time is sampled
PF_Enter(t, c, s) ==
  /\ th[t].pc = "idle"
  /\ nreq < MaxReq
  /\ nreq' = nreq + 1
  /\ buckets' = buckets \cup {c}
  /\ th' = [th EXCEPT ![t] = [IdleThread EXCEPT !.pc = "L109", !.key = <<c, s>>, !.now = clock]]
  /\ ret' = [ret EXCEPT ![t] = [how |-> "pending", key |-> <<c, s>>,
                              together |-> ArrivedTogether(t), ph |-> FALSE]]
  /\ UNCHANGED pfElse
  /\ UNCHANGED << clock, processed_frames, frame_locks, lock_holder, cameras, slot,
                  camLock, model_loaded, inference_lock, wcache >>

PF_FirstCheckLocked(t) ==
  /\ th[t].pc = "L109"
  /\ LET k == LockKey(CamOf(t), StageOf(t)) IN
       IF frame_locks[k] = 0 THEN TRUE ELSE lock_holder[<<k, frame_locks[k]>>] = 0
  /\ LET e == Entry(CamOf(t), StageOf(t)) IN
       IF FreshAt(e, th[t].now)
       THEN /\ th' = [th EXCEPT ![t] = IdleThread]
            /\ Returned(t, "hit1", e)
       ELSE /\ th' = [th EXCEPT ![t].pc = "L113", ![t].now = -1]
            /\ UNCHANGED ret
  /\ UNCHANGED pfElse
  /\ UNCHANGED << clock, processed_frames, buckets, frame_locks, lock_holder, nreq, cameras,
                  slot, camLock, model_loaded, inference_lock, wcache >>

\* lines 109-111: the lock-free first check
PF_FirstCheck(t) ==
  /\ th[t].pc = "L109"
  /\ LET e == Entry(CamOf(t), StageOf(t)) IN
       IF FreshAt(e, th[t].now)
       THEN /\ th' = [th EXCEPT ![t] = IdleThread]
            /\ Returned(t, "hit1", e)
       ELSE /\ th' = [th EXCEPT ![t].pc = "L113", ![t].now = -1]
            /\ UNCHANGED ret
  /\ UNCHANGED pfElse
  /\ UNCHANGED << clock, processed_frames, buckets, frame_locks, lock_holder, nreq, cameras,
                  slot, camLock, model_loaded, inference_lock, wcache >>

\* line 113: lock = frame_locks.setdefault((camera_id, detection_type), Lock())
PF_GetLock(t) ==
  /\ th[t].pc = "L113"
  /\ LET k == LockKey(CamOf(t), StageOf(t)) IN
       /\ frame_locks' = SetDefaultLock(k, t)
       /\ th' = [th EXCEPT ![t].pc = "L114", ![t].lock = frame_locks'[k]]
  /\ UNCHANGED pfElse
  /\ UNCHANGED << clock, processed_frames, buckets, lock_holder, ret, nreq, cameras, slot,
                  camLock, model_loaded, inference_lock, wcache >>

PF_AcquireNoBlock(t) ==
  /\ th[t].pc = "L114"
  /\ lock_holder' = [lock_holder EXCEPT ![LockObj(t)] = t]
  /\ th' = [th EXCEPT ![t].pc = "L116"]
  /\ UNCHANGED pfElse
  /\ UNCHANGED << clock, processed_frames, buckets, frame_locks, ret, nreq, cameras, slot,
                  camLock, model_loaded, inference_lock, wcache >>

\* line 114: with lock (blocks while another thread holds the lock object)
PF_Acquire(t) ==
  /\ th[t].pc = "L114"
  /\ lock_holder[LockObj(t)] = 0
  /\ lock_holder' = [lock_holder EXCEPT ![LockObj(t)] = t]
  /\ th' = [th EXCEPT ![t].pc = "L116"]
  /\ UNCHANGED pfElse
  /\ UNCHANGED << clock, processed_frames, buckets, frame_locks, ret, nreq, cameras, slot,
                  camLock, model_loaded, inference_lock, wcache >>

RecheckNever(e) == FALSE

\* line 117: cached and (time.time() - cached['timestamp']) <= FRAME_CACHE_TTL
RecheckHit(e) == FreshAt(e, clock)

\* lines 116-121: the re-check under the lock; on a miss get_frame looks the
\* camera up (CameraManager.get_frame, lines 154-157): an unregistered camera
\* gives None, a registered one is read
PF_Recheck(t) ==
  /\ th[t].pc = "L116"
  /\ LET e == Entry(CamOf(t), StageOf(t)) IN
       IF RecheckHit(e)
       THEN /\ th' = [th EXCEPT ![t] = IdleThread]
            /\ lock_holder' = [lock_holder EXCEPT ![LockObj(t)] = 0]
            /\ Returned(t, "hit2", e)
       ELSE /\ th' = [th EXCEPT ![t].pc = IF CamOf(t) \in cameras THEN "R117" ELSE "L123"]
            /\ UNCHANGED << lock_holder, ret >>
  /\ UNCHANGED pfElse
  /\ UNCHANGED << clock, processed_frames, buckets, frame_locks, nreq, cameras, slot,
                  camLock, model_loaded, inference_lock, wcache >>

\* CameraStream.read, line 117: with self.lock
CamRead_Acquire(t) ==
  /\ th[t].pc = "R117"
  /\ camLock[CamOf(t)] = 0
  /\ camLock' = [camLock EXCEPT ![CamOf(t)] = t]
  /\ th' = [th EXCEPT ![t].pc = "R118"]
  /\ UNCHANGED pfElse
  /\ UNCHANGED << clock, processed_frames, buckets, frame_locks, lock_holder, ret, nreq,
                  cameras, slot, model_loaded, inference_lock, wcache >>

\* CameraStream.read, lines 118-120: None, or a copy of the latest frame; with
\* a frame, process_frame goes on to the branch of its stage (lines 136-159)
CamRead_Copy(t) ==
  /\ th[t].pc = "R118"
  /\ camLock' = [camLock EXCEPT ![CamOf(t)] = 0]
  /\ th' = [th EXCEPT ![t].pc = IF slot[CamOf(t)] THEN StagePc(StageOf(t)) ELSE "L123",
                      ![t].frame = IF slot[CamOf(t)] THEN RawFrame(CamOf(t)) ELSE NoFrame]
  /\ UNCHANGED pfElse
  /\ UNCHANGED << clock, processed_frames, buckets, frame_locks, lock_holder, ret, nreq,
                  cameras, slot, model_loaded, inference_lock, wcache >>

\* the 'timestamp' of a published entry: time.time() at lines 132 and 184
PublishTime(t) == clock

\* cache_bucket[detection_type] = {'frame': frame_bytes, 'timestamp': time.time()},
\* then return frame_bytes, which leaves the with block and releases the lock
PublishAndReturn(t, f, how) ==
  LET e == [frame |-> f, timestamp |-> PublishTime(t)] IN
    /\ processed_frames' = [processed_frames EXCEPT ![CamOf(t)][StageOf(t)] = e]
    /\ lock_holder' = [lock_holder EXCEPT ![LockObj(t)] = 0]
    /\ th' = [th EXCEPT ![t] = IdleThread]
    /\ Returned(t, how, e)

PF_PlaceholderUncached(t) ==
  /\ th[t].pc = "L123"
  /\ lock_holder' = [lock_holder EXCEPT ![LockObj(t)] = 0]
  /\ th' = [th EXCEPT ![t] = IdleThread]
  /\ Returned(t, "placeholder", [frame |-> Placeholder(CamOf(t)), timestamp |-> clock])
  /\ UNCHANGED pfElse
  /\ UNCHANGED << clock, processed_frames, buckets, frame_locks, nreq, cameras, slot,
                  camLock, model_loaded, inference_lock, wcache >>

\* lines 123-134: no frame, so the placeholder is built, published and returned
PF_Placeholder(t) ==
  /\ th[t].pc = "L123"
  /\ PublishAndReturn(t, Placeholder(CamOf(t)), "placeholder")
  /\ UNCHANGED pfElse
  /\ UNCHANGED << clock, buckets, frame_locks, nreq, cameras, slot, camLock, model_loaded,
                  inference_lock, wcache >>

\* an exception that leaves process_frame with the per-key lock still held
RaiseKeepLock(t) ==
  /\ th' = [th EXCEPT ![t] = IdleThread]
  /\ UNCHANGED lock_holder
  /\ Returned(t, "raised", NoEntry)

\* an exception that leaves process_frame: the with statement releases the
\* per-key lock and nothing is published
Raise(t) ==
  /\ th' = [th EXCEPT ![t] = IdleThread]
  /\ lock_holder' = [lock_holder EXCEPT ![LockObj(t)] = 0]
  /\ Returned(t, "raised", NoEntry)

\* lines 139-147, the 'crowd' and the 'face' branch: detect_faces or
\* detect_and_match, then the stage's overlay; the call returns or raises
PF_Detect(t, ok) ==
  /\ th[t].pc \in {"L140", "L145"}
  /\ IF ok
     THEN /\ th' = [th EXCEPT ![t].pc = "L180", ![t].frame = Draw(@, StageOf(t))]
          /\ UNCHANGED << lock_holder, ret >>
     ELSE Raise(t)
  /\ UNCHANGED pfElse
  /\ UNCHANGED << clock, processed_frames, buckets, frame_locks, nreq, cameras, slot,
                  camLock, model_loaded, inference_lock, wcache >>

\* lines 161-169, the 'all' pipeline: detect_faces, then detect_and_match, on
\* temp_frame; detect_weapons follows
PF_AllDetect(t, ok) ==
  /\ th[t].pc = "L165"
  /\ IF ok
     THEN /\ th' = [th EXCEPT ![t].pc = IF settings.enable_weapon_detection
                                        THEN "W102" ELSE "L180",
                              ![t].frame = Draw(Draw(@, "crowd"), "face")]
          /\ UNCHANGED << lock_holder, ret >>
     ELSE Raise(t)
  /\ UNCHANGED pfElse
  /\ UNCHANGED << clock, processed_frames, buckets, frame_locks, nreq, cameras, slot,
                  camLock, model_loaded, inference_lock, wcache >>

\* ---------------------------------------------- WeaponDetector.detect_weapons
\* cached and (time.time() - cached['timestamp'] <= self.cache_ttl)
WFresh(c) == wcache[c] # NoWCache /\ (clock - wcache[c].timestamp) <= cache_ttl

\* lines 102-109: a disabled backend returns the input frame; a fresh entry of
\* the per-camera cache is returned in place of an inference
WD_Check(t) ==
  /\ th[t].pc = "W102"
  /\ IF ~model_loaded
     THEN th' = [th EXCEPT ![t].pc = "L180"]
     ELSE IF WFresh(CamOf(t))
          THEN th' = [th EXCEPT ![t].pc = "L180", ![t].frame = wcache[CamOf(t)].frame]
          ELSE th' = [th EXCEPT ![t].pc = "W112"]
  /\ UNCHANGED pfElse
  /\ UNCHANGED << clock, processed_frames, buckets, frame_locks, lock_holder, ret, nreq,
                  cameras, slot, camLock, model_loaded, inference_lock, wcache >>

\* line 112: with self.inference_lock
WD_Acquire(t) ==
  /\ th[t].pc = "W112"
  /\ inference_lock = 0
  /\ inference_lock' = t
  /\ th' = [th EXCEPT ![t].pc = "W114"]
  /\ UNCHANGED pfElse
  /\ UNCHANGED << clock, processed_frames, buckets, frame_locks, lock_holder, ret, nreq,
                  cameras, slot, camLock, model_loaded, wcache >>

\* line 114 with a lock that the end of the invocation does not release
WD_InferKeepLock(t, ok) ==
  /\ th[t].pc = "W114"
  /\ UNCHANGED inference_lock
  /\ th' = [th EXCEPT ![t].pc = IF ok THEN "W149" ELSE "L180"]
  /\ UNCHANGED pfElse
  /\ UNCHANGED << clock, processed_frames, buckets, frame_locks, lock_holder, ret, nreq,
                  cameras, slot, camLock, model_loaded, wcache >>

\* line 114: the backend runs under the lock; it returns detections or raises
\* (lines 159-161 then return the input frame); either way the lock is released
WD_Infer(t, ok) ==
  /\ th[t].pc = "W114"
  /\ inference_lock' = 0
  /\ th' = [th EXCEPT ![t].pc = IF ok THEN "W149" ELSE "L180"]
  /\ UNCHANGED pfElse
  /\ UNCHANGED << clock, processed_frames, buckets, frame_locks, lock_holder, ret, nreq,
                  cameras, slot, camLock, model_loaded, wcache >>

\* lines 116-157: the detections are drawn on a copy of the input frame, which
\* is cached with the summary and returned (the tag "weapon" stands for the
\* threat stage's boxes and summary)
WD_Store(t) ==
  /\ th[t].pc = "W149"
  /\ LET annotated == Draw(th[t].frame, "weapon") IN
       /\ wcache' = [wcache EXCEPT ![CamOf(t)] = [frame |-> annotated, timestamp |-> clock]]
       /\ th' = [th EXCEPT ![t].pc = "L180", ![t].frame = annotated]
  /\ UNCHANGED pfElse
  /\ UNCHANGED << clock, processed_frames, buckets, frame_locks, lock_holder, ret, nreq,
                  cameras, slot, camLock, model_loaded, inference_lock >>

\* lines 180-186: encode, publish and return
PF_Publish(t) ==
  /\ th[t].pc = "L180"
  /\ PublishAndReturn(t, th[t].frame, "computed")
  /\ UNCHANGED pfElse
  /\ UNCHANGED << clock, buckets, frame_locks, nreq, cameras, slot, camLock, model_loaded,
                  inference_lock, wcache >>

\* ------------------------------------------------------------- environment
\* time passes
Tick ==
  /\ clock < MaxTime
  /\ clock' = clock + 1
  /\ UNCHANGED pfElse
  /\ UNCHANGED << processed_frames, buckets, frame_locks, lock_holder, th, ret, nreq,
                  cameras, slot, camLock, model_loaded, inference_lock, wcache >>

\* CameraStream._capture_loop, lines 104-106: a frame is stored under the lock
CaptureStore(c) ==
  /\ c \in cameras
  /\ camLock[c] = 0
  /\ ~slot[c]
  /\ slot' = [slot EXCEPT ![c] = TRUE]
  /\ UNCHANGED pfElse
  /\ UNCHANGED << clock, processed_frames, buckets, frame_locks, lock_holder, th, ret, nreq,
                  cameras, camLock, model_loaded, inference_lock, wcache >>

InitPF ==
  /\ clock = 0
  /\ processed_frames = [c \in Cameras |-> NoBucket]
  /\ buckets = {}
  /\ frame_locks = [k \in Keys |-> 0]
  /\ lock_holder = [o \in Keys \X LockIds |-> 0]
  /\ th = [t \in Threads |-> IdleThread]
  /\ ret = [t \in Threads |-> NoRet]
  /\ nreq = 0
  /\ cameras = {0}
  /\ slot = [c \in Cameras |-> FALSE]
  /\ camLock = [c \in Cameras |-> 0]
  \* the detection backend loaded, so the threat stage runs inferences
  /\ model_loaded = TRUE
  /\ inference_lock = 0
  /\ wcache = [c \in Cameras |-> NoWCache]
  \* the registered stream was started: its device is open and its loop runs
  /\ running = TRUE
  /\ cap = "open"
  /\ thread = 1
  /\ loops = [l \in LoopIds |-> IF l = 1 THEN NewLoop ELSE NoLoop]
  /\ call = [c \in Callers |-> IdleCall]
  /\ ncalls = 0
  /\ frame_ts = -1
  /\ last_update = 0
  /\ paired = TRUE
  /\ rd = [r \in Readers |-> IdleReader]
  /\ ExtInit

NextPF ==
  \/ \E t \in Threads, k \in Requests : PF_Enter(t, k[1], k[2])
  \/ \E t \in Threads : PF_FirstCheck(t)
  \/ \E t \in Threads : PF_GetLock(t)
  \/ \E t \in Threads : PF_Acquire(t)
  \/ \E t \in Threads : PF_Recheck(t)
  \/ \E t \in Threads : CamRead_Acquire(t)
  \/ \E t \in Threads : CamRead_Copy(t)
  \/ \E t \in Threads : PF_Placeholder(t)
  \/ \E t \in Threads, ok \in BOOLEAN : PF_Detect(t, ok)
  \/ \E t \in Threads, ok \in BOOLEAN : PF_AllDetect(t, ok)
  \/ \E t \in Threads : WD_Check(t)
  \/ \E t \in Threads : WD_Acquire(t)
  \/ \E t \in Threads, ok \in BOOLEAN : WD_Infer(t, ok)
  \/ \E t \in Threads : WD_Store(t)
  \/ \E t \in Threads : PF_Publish(t)
  \/ \E c \in Cameras : CaptureStore(c)
  \/ Tick

SpecPF == InitPF /\ [][NextPF]_vars

\* a step of the process_frame call of thread t
CallStep(t) ==
  \/ PF_FirstCheck(t)
  \/ PF_GetLock(t)
  \/ PF_Acquire(t)
  \/ PF_Recheck(t)
  \/ CamRead_Acquire(t)
  \/ CamRead_Copy(t)
  \/ PF_Placeholder(t)
  \/ \E ok \in BOOLEAN : PF_Detect(t, ok)
  \/ \E ok \in BOOLEAN : PF_AllDetect(t, ok)
  \/ WD_Check(t)
  \/ WD_Acquire(t)
  \/ \E ok \in BOOLEAN : WD_Infer(t, ok)
  \/ WD_Store(t)
  \/ PF_Publish(t)

\* the runs in which as many requests are made as there are handlers
NextLive == NextPF /\ nreq' <= Cardinality(Threads)

\* those runs with each request's thread scheduled: every detector call,
\* device read and encode returns or raises, and a free lock is taken by a
\* waiter
SpecPFFair == InitPF /\ [][NextLive]_vars /\ \A t \in Threads : WF_vars(CallStep(t))

\* ============================================================ CameraStream
camRest ==
  << clock, processed_frames, buckets, frame_locks, lock_holder, th, ret, nreq, cameras,
     camLock, model_loaded, inference_lock, wcache >>

\* a call begins: its record is reset, and it is alone when no other call runs
Begin(c, op, pc) ==
  /\ call[c].pc = "idle"
  /\ ncalls < MaxCalls
  /\ ncalls' = ncalls + 1
  /\ call' = [d \in Callers |->
                IF d = c
                THEN [IdleCall EXCEPT !.op = op, !.pc = pc,
                                      !.alone = \A e \in Callers \ {c} : call[e].pc = "idle"]
                ELSE IF call[d].pc # "idle" THEN [call[d] EXCEPT !.alone = FALSE]
                ELSE call[d]]

\* a call returns
Return(c, result) == [call EXCEPT ![c].pc = "idle", ![c].result = result]

\* _open_capture, lines 29-54: the VideoCapture replaces self.cap and is opened
\* ("ok") or not ("fail"); "throw" is an exception raised before self.cap is
\* assigned
OpenOutcomes == {"ok", "fail", "throw"}
OpenCapture(o) == CASE o = "ok" -> "open" [] o = "fail" -> "closed" [] OTHER -> cap

Call_Start(c) ==
  /\ Begin(c, "start", "S58")
  /\ UNCHANGED << running, cap, thread, loops >>
  /\ UNCHANGED camElse

Start_CheckNoGuard(c) ==
  /\ call[c].pc = "S58"
  /\ call' = [call EXCEPT ![c].pc = "S62"]
  /\ UNCHANGED << running, cap, thread, loops, ncalls >>
  /\ UNCHANGED camElse

\* lines 58-59: if self.running: return True
Start_Check(c) ==
  /\ call[c].pc = "S58"
  /\ call' = IF running THEN Return(c, "True") ELSE [call EXCEPT ![c].pc = "S62"]
  /\ UNCHANGED << running, cap, thread, loops, ncalls >>
  /\ UNCHANGED camElse

Start_OpenIgnoreFailure(c, o) ==
  /\ call[c].pc = "S62"
  /\ cap' = OpenCapture(o)
  /\ call' = [call EXCEPT ![c].opened = o, ![c].pc = "S67"]
  /\ UNCHANGED << running, thread, loops, ncalls >>
  /\ UNCHANGED camElse

\* lines 61-64 and 74-76: the device is opened; a failure and an exception
\* both return False
Start_Open(c, o) ==
  /\ call[c].pc = "S62"
  /\ cap' = OpenCapture(o)
  /\ call' = IF o = "ok"
             THEN [call EXCEPT ![c].opened = o, ![c].pc = "S67"]
             ELSE [Return(c, "False") EXCEPT ![c].opened = o]
  /\ UNCHANGED << running, thread, loops, ncalls >>
  /\ UNCHANGED camElse

\* line 67: self.running = True
Start_SetRunning(c) ==
  /\ call[c].pc = "S67"
  /\ running' = TRUE
  /\ call' = [call EXCEPT ![c].setrun = TRUE, ![c].pc = "S68"]
  /\ UNCHANGED << cap, thread, loops, ncalls >>
  /\ UNCHANGED camElse

\* the number the next launched loop gets
NextLoopId == CHOOSE l \in LoopIds : loops[l].pc = "none" /\ \A k \in 1..(l - 1) : loops[k].pc # "none"

\* lines 68-72: a thread running _capture_loop is created, stored in
\* self.thread and started; start returns True
Start_Launch(c) ==
  /\ call[c].pc = "S68"
  /\ loops' = [loops EXCEPT ![NextLoopId] = NewLoop]
  /\ thread' = NextLoopId
  /\ call' = [Return(c, "True") EXCEPT ![c].launched = @ + 1]
  /\ UNCHANGED << running, cap, ncalls >>
  /\ UNCHANGED camElse

Call_Stop(c) ==
  /\ Begin(c, "stop", "L124")
  /\ UNCHANGED << running, cap, thread, loops >>
  /\ UNCHANGED camElse

\* line 124: self.running = False
Stop_Flag(c) ==
  /\ call[c].pc = "L124"
  /\ running' = FALSE
  /\ call' = [call EXCEPT ![c].pc = "L125"]
  /\ UNCHANGED << cap, thread, loops, ncalls >>
  /\ UNCHANGED camElse

\* the device calls of the loop, which can block for longer than the join waits
Blocking == {"open", "L90"}

\* lines 125-126: without a thread there is nothing to join; join returns when
\* the loop has ended, or after its 2 s while the loop is inside a device call
Stop_Join(c) ==
  /\ call[c].pc = "L125"
  /\ IF thread = 0 \/ loops[thread].pc = "done"
     THEN call' = [call EXCEPT ![c].pc = "L127"]
     ELSE /\ loops[thread].pc \in Blocking
          /\ call' = [call EXCEPT ![c].pc = "L127", ![c].timedout = TRUE]
  /\ UNCHANGED << running, cap, thread, loops, ncalls >>
  /\ UNCHANGED camElse

\* lines 127-128: if self.cap: self.cap.release()
Stop_Release(c) ==
  /\ call[c].pc = "L127"
  /\ cap' = IF cap = "none" THEN "none" ELSE "closed"
  /\ call' = [call EXCEPT ![c].pc = "L129"]
  /\ UNCHANGED << running, thread, loops, ncalls >>
  /\ UNCHANGED camElse

\* line 129: the message is printed and stop returns
Stop_Return(c) ==
  /\ call[c].pc = "L129"
  /\ call' = Return(c, "stopped")
  /\ UNCHANGED << running, cap, thread, loops, ncalls >>
  /\ UNCHANGED camElse

\* ------------------------------------------------------------ _capture_loop
Loop_WhileForever(l) ==
  /\ loops[l].pc = "L82"
  /\ loops' = [loops EXCEPT ![l].pc = "L84"]
  /\ UNCHANGED << running, cap, thread, call, ncalls >>
  /\ UNCHANGED camElse

\* line 82: while self.running
Loop_While(l) ==
  /\ loops[l].pc = "L82"
  /\ loops' = [loops EXCEPT ![l] = IF running THEN [@ EXCEPT !.pc = "L84"] ELSE DoneLoop]
  /\ UNCHANGED << running, cap, thread, call, ncalls >>
  /\ UNCHANGED camElse

\* lines 84-86: if not self.cap or not self.cap.isOpened(), reopen
Loop_CheckCap(l) ==
  /\ loops[l].pc = "L84"
  /\ loops' = [loops EXCEPT ![l].pc = IF cap # "open" THEN "open" ELSE "L90"]
  /\ UNCHANGED << running, cap, thread, call, ncalls >>
  /\ UNCHANGED camElse

\* lines 86-88 and 111-113: the reopen succeeds and the read follows, or it
\* fails or raises and the loop sleeps and starts its next iteration
Loop_Reopen(l, o) ==
  /\ loops[l].pc = "open"
  /\ cap' = OpenCapture(o)
  /\ loops' = [loops EXCEPT ![l].pc = IF o = "ok" THEN "L90" ELSE "L82"]
  /\ UNCHANGED << running, thread, call, ncalls >>
  /\ UNCHANGED camElse

\* line 93: consecutive_failures += 1
FailsAfterFailure(n) == n + 1

ReadOutcomes == {"ok", "fail", "raise"}

\* lines 90-101 and 111-113: self.cap.read(); a handle that is not open gives
\* no frame (None raises); a failed read counts and the loop continues, or
\* backs off when the counter is above 10; an exception is caught, a frame
\* resets the counter
Loop_Read(l, o) ==
  /\ loops[l].pc = "L90"
  /\ cap = "none" => o = "raise"
  /\ cap = "closed" => o = "fail"
  /\ loops' = [loops EXCEPT ![l] =
                 CASE o = "ok" -> [pc |-> "L104", fails |-> 0, ts |-> clock]
                   [] o = "fail" ->
                        [pc |-> IF FailsAfterFailure(@.fails) > MaxConsecutiveFailures
                                THEN "L96" ELSE "L82",
                         fails |-> FailsAfterFailure(@.fails), ts |-> -1]
                   [] OTHER -> [@ EXCEPT !.pc = "L82"]]
  /\ UNCHANGED << running, cap, thread, call, ncalls >>
  /\ UNCHANGED camElse

\* lines 95-98: the loop logs, sleeps for a second, resets the counter and
\* starts its next iteration
Loop_Backoff(l) ==
  /\ loops[l].pc = "L96"
  /\ loops' = [loops EXCEPT ![l] = NewLoop]
  /\ UNCHANGED << running, cap, thread, call, ncalls >>
  /\ UNCHANGED camElse

\* the stream's lock held by acquisition loop l (readers hold it under their id)
LoopHolder(l) == 0 - l

\* line 104: with self.lock
Loop_Lock(l) ==
  /\ loops[l].pc = "L104"
  /\ camLock[StreamId] = 0
  /\ camLock' = [camLock EXCEPT ![StreamId] = LoopHolder(l)]
  /\ loops' = [loops EXCEPT ![l].pc = "L105"]
  /\ UNCHANGED << running, cap, thread, call, ncalls >>
  /\ UNCHANGED extVars
  /\ UNCHANGED << clock, processed_frames, buckets, frame_locks, lock_holder, th, ret, nreq,
                  cameras, slot, model_loaded, inference_lock, wcache >>
  /\ UNCHANGED rdVars

Loop_SetTimeKeepLock(l) ==
  /\ loops[l].pc = "L106"
  /\ last_update' = clock
  /\ paired' = TRUE
  /\ loops' = [loops EXCEPT ![l].pc = "L82"]
  /\ UNCHANGED << running, cap, thread, call, ncalls >>
  /\ UNCHANGED extVars
  /\ UNCHANGED pfVars
  /\ UNCHANGED << frame_ts, rd >>

\* line 105: self.frame = frame.copy()
Loop_SetFrame(l) ==
  /\ loops[l].pc = "L105"
  /\ frame_ts' = loops[l].ts
  /\ slot' = [slot EXCEPT ![StreamId] = TRUE]
  /\ paired' = FALSE
  /\ loops' = [loops EXCEPT ![l].pc = "L106", ![l].ts = -1]
  /\ UNCHANGED << running, cap, thread, call, ncalls >>
  /\ UNCHANGED extVars
  /\ UNCHANGED camRest
  /\ UNCHANGED << last_update, rd >>

\* lines 106-109: self.last_update = time.time(); the with block ends and
\* releases the lock; the loop sleeps and starts its next iteration
Loop_SetTime(l) ==
  /\ loops[l].pc = "L106"
  /\ last_update' = clock
  /\ paired' = TRUE
  /\ camLock' = [camLock EXCEPT ![StreamId] = 0]
  /\ loops' = [loops EXCEPT ![l].pc = "L82"]
  /\ UNCHANGED << running, cap, thread, call, ncalls >>
  /\ UNCHANGED extVars
  /\ UNCHANGED << clock, processed_frames, buckets, frame_locks, lock_holder, th, ret, nreq,
                  cameras, slot, model_loaded, inference_lock, wcache >>
  /\ UNCHANGED << frame_ts, rd >>

\* the device goes away: isOpened() of the open handle becomes false
Disconnect ==
  /\ cap = "open"
  /\ cap' = "closed"
  /\ UNCHANGED << running, thread, loops, call, ncalls >>
  /\ UNCHANGED camElse

\* CameraStream.__init__, lines 22-27; nothing else of the application runs
RestIdle ==
  /\ clock = 0
  /\ processed_frames = [c \in Cameras |-> NoBucket]
  /\ buckets = {}
  /\ frame_locks = [k \in Keys |-> 0]
  /\ lock_holder = [o \in Keys \X LockIds |-> 0]
  /\ th = [t \in Threads |-> IdleThread]
  /\ ret = [t \in Threads |-> NoRet]
  /\ nreq = 0
  /\ cameras = {}
  /\ slot = [c \in Cameras |-> FALSE]
  /\ camLock = [c \in Cameras |-> 0]
  /\ inference_lock = 0
  /\ wcache = [c \in Cameras |-> NoWCache]
  /\ running = FALSE
  /\ cap = "none"
  /\ thread = 0
  /\ loops = [l \in LoopIds |-> NoLoop]
  /\ call = [c \in Callers |-> IdleCall]
  /\ ncalls = 0
  /\ frame_ts = -1
  /\ last_update = 0
  /\ paired = TRUE
  /\ rd = [r \in Readers |-> IdleReader]

\* with the detection backend loaded
AllIdle == RestIdle /\ model_loaded = TRUE

InitCam == AllIdle /\ ExtInit

NextCam ==
  \/ \E c \in Callers : Call_Start(c)
  \/ \E c \in Callers : Start_Check(c)
  \/ \E c \in Callers, o \in OpenOutcomes : Start_Open(c, o)
  \/ \E c \in Callers : Start_SetRunning(c)
  \/ \E c \in Callers : Start_Launch(c)
  \/ \E c \in Callers : Call_Stop(c)
  \/ \E c \in Callers : Stop_Flag(c)
  \/ \E c \in Callers : Stop_Join(c)
  \/ \E c \in Callers : Stop_Release(c)
  \/ \E c \in Callers : Stop_Return(c)
  \/ \E l \in LoopIds : Loop_While(l)
  \/ \E l \in LoopIds : Loop_CheckCap(l)
  \/ \E l \in LoopIds, o \in OpenOutcomes : Loop_Reopen(l, o)
  \/ \E l \in LoopIds, o \in ReadOutcomes : Loop_Read(l, o)
  \/ \E l \in LoopIds : Loop_Backoff(l)
  \/ \E l \in LoopIds : Loop_Lock(l)
  \/ \E l \in LoopIds : Loop_SetFrame(l)
  \/ \E l \in LoopIds : Loop_SetTime(l)
  \/ Disconnect

SpecCam == InitCam /\ [][NextCam]_vars

\* a step of acquisition loop l
LoopStep(l) ==
  \/ Loop_While(l)
  \/ Loop_CheckCap(l)
  \/ \E o \in OpenOutcomes : Loop_Reopen(l, o)
  \/ \E o \in ReadOutcomes : Loop_Read(l, o)
  \/ Loop_Backoff(l)
  \/ Loop_Lock(l)
  \/ Loop_SetFrame(l)
  \/ Loop_SetTime(l)

\* SpecCam with each loop's thread scheduled: every device read, reopen
\* attempt and sleep of a loop returns
SpecCamFair == SpecCam /\ \A l \in LoopIds : WF_vars(LoopStep(l))

\* ------------------------------------------------------- CameraStream.read
\* a reader calls read()
Read_Call(r) ==
  /\ rd[r].pc = "idle"
  /\ rd' = [rd EXCEPT ![r].pc = "R117"]
  /\ UNCHANGED << frame_ts, last_update, paired >>
  /\ UNCHANGED extVars
  /\ UNCHANGED << pfVars, camVars >>

Read_AcquireNoLock(r) ==
  /\ rd[r].pc = "R117"
  /\ rd' = [rd EXCEPT ![r].pc = "R118"]
  /\ UNCHANGED << frame_ts, last_update, paired >>
  /\ UNCHANGED extVars
  /\ UNCHANGED << pfVars, camVars >>

\* line 117: with self.lock
Read_Acquire(r) ==
  /\ rd[r].pc = "R117"
  /\ camLock[StreamId] = 0
  /\ camLock' = [camLock EXCEPT ![StreamId] = r]
  /\ rd' = [rd EXCEPT ![r].pc = "R118"]
  /\ UNCHANGED << frame_ts, last_update, paired >>
  /\ UNCHANGED extVars
  /\ UNCHANGED << clock, processed_frames, buckets, frame_locks, lock_holder, th, ret, nreq,
                  cameras, slot, model_loaded, inference_lock, wcache >>
  /\ UNCHANGED camVars

\* lines 118-120: None, or a copy of the stored frame; the lock is released
Read_Copy(r) ==
  /\ rd[r].pc = "R118"
  /\ rd' = [rd EXCEPT ![r] = [pc |-> "idle", got |-> frame_ts]]
  /\ camLock' = [camLock EXCEPT ![StreamId] = IF @ = r THEN 0 ELSE @]
  /\ UNCHANGED << frame_ts, last_update, paired >>
  /\ UNCHANGED extVars
  /\ UNCHANGED << clock, processed_frames, buckets, frame_locks, lock_holder, th, ret, nreq,
                  cameras, slot, model_loaded, inference_lock, wcache >>
  /\ UNCHANGED camVars

\* the stream after start() returned True (lines 62-72) and add_camera
\* registered it (line 148): the device is open and the one loop begins
InitRead ==
  /\ clock = 0
  /\ processed_frames = [c \in Cameras |-> NoBucket]
  /\ buckets = {}
  /\ frame_locks = [k \in Keys |-> 0]
  /\ lock_holder = [o \in Keys \X LockIds |-> 0]
  /\ th = [t \in Threads |-> IdleThread]
  /\ ret = [t \in Threads |-> NoRet]
  /\ nreq = 0
  /\ cameras = {StreamId}
  /\ slot = [c \in Cameras |-> FALSE]
  /\ camLock = [c \in Cameras |-> 0]
  /\ model_loaded = TRUE
  /\ inference_lock = 0
  /\ wcache = [c \in Cameras |-> NoWCache]
  /\ running = TRUE
  /\ cap = "open"
  /\ thread = 1
  /\ loops = [l \in LoopIds |-> IF l = 1 THEN NewLoop ELSE NoLoop]
  /\ call = [c \in Callers |-> IdleCall]
  /\ ncalls = 0
  /\ frame_ts = -1
  /\ last_update = 0
  /\ paired = TRUE
  /\ rd = [r \in Readers |-> IdleReader]
  /\ ExtInit

NextRead ==
  \/ \E l \in LoopIds : Loop_While(l)
  \/ \E l \in LoopIds : Loop_CheckCap(l)
  \/ \E l \in LoopIds, o \in OpenOutcomes : Loop_Reopen(l, o)
  \/ \E l \in LoopIds, o \in ReadOutcomes : Loop_Read(l, o)
  \/ \E l \in LoopIds : Loop_Backoff(l)
  \/ \E l \in LoopIds : Loop_Lock(l)
  \/ \E l \in LoopIds : Loop_SetFrame(l)
  \/ \E l \in LoopIds : Loop_SetTime(l)
  \/ \E r \in Readers : Read_Call(r)
  \/ \E r \in Readers : Read_Acquire(r)
  \/ \E r \in Readers : Read_Copy(r)
  \/ Disconnect
  \/ Tick

\* a running stream, its acquisition loop and its readers
SpecRead == InitRead /\ [][NextRead]_vars

\* ------------------------------------------------------------ CameraManager
\* everything the manager's methods leave alone, bar the registry
mgrElse ==
  << clock, processed_frames, buckets, frame_locks, lock_holder, th, ret, nreq, slot,
     camLock, model_loaded, inference_lock, wcache, camVars, rdVars, nmsVars, rotVars,
     crowdVars, faceVars, wdVars >>

\* line 201: the chunks of the string that are not blank, each as its
\* position in the string, in order
RECURSIVE EntriesFrom(_, _)
EntriesFrom(cfg, p) ==
  IF p > Len(cfg) THEN << >>
  ELSE (IF cfg[p] = "blank" THEN << >> ELSE << p >>) \o EntriesFrom(cfg, p + 1)

Entries(cfg) == EntriesFrom(cfg, 1)

\* the caller makes its next call of a manager method
Mgr_Call(op, cfg, id) ==
  /\ mgr.pc \in {"idle", "done"}
  /\ nops < MaxOps
  /\ op # "initialize_from_sources" => cfg = << >>
  /\ op # "add_camera" => id = MainCamera
  /\ nops' = nops + 1
  /\ mgr' = [IdleMgr EXCEPT !.op = op, !.cfg = cfg, !.id = id, !.before = cameras,
                            !.pc = CASE op = "add_camera" -> "A142"
                                     [] op = "stop_all" -> "S165"
                                     [] op = "initialize_default_cameras" -> "D172"
                                     [] OTHER -> "F195"]
  /\ UNCHANGED << cameras, streams, initialized, nstreams >>
  /\ UNCHANGED mgrElse

\* add_camera (lines 142-150) for camera id, built from the chunk at
\* position chunk, when start() of a stream it constructs returns ok
Registers(id, chunk, ok) ==
  IF id \in cameras
    THEN UNCHANGED << cameras, streams, nstreams >>
    ELSE /\ nstreams' = nstreams + 1
         /\ IF ok
              THEN /\ cameras' = cameras \cup {id}
                   /\ streams' = [streams EXCEPT ![id] =
                                    [obj |-> nstreams + 1, op |-> nops, chunk |-> chunk,
                                     started |-> TRUE, running |-> TRUE]]
              ELSE UNCHANGED << cameras, streams >>

\* what add_camera returns (lines 144, 149, 150)
AddResult(id, ok) == id \in cameras \/ ok

\* what the call record keeps of one add_camera
Added(id, ok) ==
  [mgr EXCEPT !.added = AddResult(id, ok),
              !.start = IF id \in cameras THEN "not called"
                        ELSE IF ok THEN "True" ELSE "False",
              !.began = IF id \notin cameras /\ ok THEN @ \cup {id} ELSE @]

\* add_camera without the test of line 147
Mgr_AddAnyway(ok) ==
  /\ mgr.pc = "A142"
  /\ Registers(mgr.id, 0, TRUE)
  /\ mgr' = [Added(mgr.id, ok) EXCEPT !.pc = "done", !.result = AddResult(mgr.id, ok)]
  /\ UNCHANGED << initialized, nops >>
  /\ UNCHANGED mgrElse

\* add_camera called on its own
Mgr_Add(ok) ==
  /\ mgr.pc = "A142"
  /\ Registers(mgr.id, 0, ok)
  /\ mgr' = [Added(mgr.id, ok) EXCEPT !.pc = "done", !.result = AddResult(mgr.id, ok)]
  /\ UNCHANGED << initialized, nops >>
  /\ UNCHANGED mgrElse

\* lines 165-166: stop() of one registered stream sets its running False
Mgr_StopOne(i) ==
  /\ mgr.pc = "S165"
  /\ i \in cameras
  /\ streams[i].running
  /\ streams' = [streams EXCEPT ![i].running = FALSE]
  /\ UNCHANGED << cameras, initialized, nstreams, mgr, nops >>
  /\ UNCHANGED mgrElse

\* line 167, once every registered stream was stopped
Mgr_Clear ==
  /\ mgr.pc = "S165"
  /\ \A i \in cameras : ~streams[i].running
  /\ cameras' = {}
  /\ streams' = [i \in MgrIds |-> NoStream]
  /\ mgr' = [mgr EXCEPT !.pc = "S168"]
  /\ UNCHANGED << initialized, nstreams, nops >>
  /\ UNCHANGED mgrElse

\* line 168, and the return to the caller of stop_all
Mgr_Uninit ==
  /\ mgr.pc = "S168"
  /\ initialized' = FALSE
  /\ mgr' = [mgr EXCEPT !.pc = IF mgr.op = "stop_all" THEN "done" ELSE "F202"]
  /\ UNCHANGED << cameras, streams, nstreams, nops >>
  /\ UNCHANGED mgrElse

\* lines 172-175
Mgr_DefaultCheck ==
  /\ mgr.pc = "D172"
  /\ mgr' = IF initialized
              THEN [mgr EXCEPT !.pc = "done", !.result = TRUE]
              ELSE [mgr EXCEPT !.pc = "D176", !.success = TRUE]
  /\ UNCHANGED << cameras, streams, initialized, nstreams, nops >>
  /\ UNCHANGED mgrElse

\* lines 176-178
Mgr_DefaultMain(ok) ==
  /\ mgr.pc = "D176"
  /\ Registers(MainCamera, 0, ok)
  /\ mgr' = [Added(MainCamera, ok) EXCEPT !.pc = "D180",
                                          !.success = AddResult(MainCamera, ok)]
  /\ UNCHANGED << initialized, nops >>
  /\ UNCHANGED mgrElse

\* lines 180-182
Mgr_DefaultExternal(ok) ==
  /\ mgr.pc = "D180"
  /\ Registers(ExternalCamera, 0, ok)
  /\ mgr' = [Added(ExternalCamera, ok) EXCEPT !.pc = "D184"]
  /\ UNCHANGED << initialized, nops >>
  /\ UNCHANGED mgrElse

\* lines 184-185
Mgr_DefaultDone ==
  /\ mgr.pc = "D184"
  /\ initialized' = TRUE
  /\ mgr' = [mgr EXCEPT !.pc = "done", !.result = mgr.success]
  /\ UNCHANGED << cameras, streams, nstreams, nops >>
  /\ UNCHANGED mgrElse

\* the same without the stop_all of line 199
Mgr_SourcesCheckNoStop ==
  /\ mgr.pc = "F195"
  /\ mgr' = [mgr EXCEPT !.pc = IF mgr.cfg = << >> THEN "D172" ELSE "F202"]
  /\ UNCHANGED << cameras, streams, initialized, nstreams, nops >>
  /\ UNCHANGED mgrElse

\* lines 195-199: the empty string goes to the default cameras, any other
\* string to stop_all
Mgr_SourcesCheck ==
  /\ mgr.pc = "F195"
  /\ mgr' = [mgr EXCEPT !.pc = IF mgr.cfg = << >> THEN "D172" ELSE "S165"]
  /\ UNCHANGED << cameras, streams, initialized, nstreams, nops >>
  /\ UNCHANGED mgrElse

Mgr_SourcesAddLast(ok) ==
  /\ mgr.pc = "F202"
  /\ mgr.idx < Len(Entries(mgr.cfg))
  /\ Registers(mgr.idx, Entries(mgr.cfg)[mgr.idx + 1], ok)
  /\ mgr' = [Added(mgr.idx, ok) EXCEPT !.idx = @ + 1,
                                       !.success = AddResult(mgr.idx, ok)]
  /\ UNCHANGED << initialized, nops >>
  /\ UNCHANGED mgrElse

\* lines 202-218: one turn of the loop over the entries
Mgr_SourcesAdd(ok) ==
  /\ mgr.pc = "F202"
  /\ mgr.idx < Len(Entries(mgr.cfg))
  /\ Registers(mgr.idx, Entries(mgr.cfg)[mgr.idx + 1], ok)
  /\ mgr' = [Added(mgr.idx, ok) EXCEPT !.idx = @ + 1,
                                       !.success = @ \/ AddResult(mgr.idx, ok)]
  /\ UNCHANGED << initialized, nops >>
  /\ UNCHANGED mgrElse

\* lines 220-221
Mgr_SourcesDone ==
  /\ mgr.pc = "F202"
  /\ mgr.idx = Len(Entries(mgr.cfg))
  /\ initialized' = mgr.success
  /\ mgr' = [mgr EXCEPT !.pc = "done", !.result = mgr.success]
  /\ UNCHANGED << cameras, streams, nstreams, nops >>
  /\ UNCHANGED mgrElse

\* a manager just constructed (lines 135-137)
InitMgr == InitCam

NextMgr ==
  \/ \E op \in MgrOps, cfg \in Configs, id \in MgrIds : Mgr_Call(op, cfg, id)
  \/ \E ok \in BOOLEAN : Mgr_Add(ok)
  \/ \E i \in MgrIds : Mgr_StopOne(i)
  \/ Mgr_Clear
  \/ Mgr_Uninit
  \/ Mgr_DefaultCheck
  \/ \E ok \in BOOLEAN : Mgr_DefaultMain(ok)
  \/ \E ok \in BOOLEAN : Mgr_DefaultExternal(ok)
  \/ Mgr_DefaultDone
  \/ Mgr_SourcesCheck
  \/ \E ok \in BOOLEAN : Mgr_SourcesAdd(ok)
  \/ Mgr_SourcesDone

\* one caller using one CameraManager
SpecMgr == InitMgr /\ [][NextMgr]_vars

\* ---------------------------------------- CrowdDetector._non_max_suppression
geoElse == << pfVars, camVars, rdVars, mgrVars, crowdVars, faceVars, wdVars >>

MaxBoxes == 3   \* boxes in one list
MaxPos == 1     \* largest x and y of a box of the grid
MaxSide == 2    \* largest w and h of a box of the grid

\* overlap_thresh = 0.35 (line 159) as ThreshNum / ThreshDen, and the 1e-6
\* of line 179 as 1 / EpsInv
ThreshNum == 7
ThreshDen == 20
EpsInv == 1000000

\* boxes with areas 100 and 80 that share 40, and a box of area 20 that
\* shares 7 with the first: ratios 0.5 and exactly 0.35
Box100 == << 0, 0, 10, 10 >>
Box80 == << 5, 0, 10, 8 >>
BoxAtThresh == << 3, 9, 10, 2 >>

GridBoxes == (0..MaxPos) \X (0..MaxPos) \X (1..MaxSide) \X (1..MaxSide)
InputBoxes == GridBoxes \cup {Box100, Box80, BoxAtThresh}
BoxLists == UNION {[1..n -> InputBoxes] : n \in 0..MaxBoxes}

Min(a, b) == IF a < b THEN a ELSE b
Max(a, b) == IF a > b THEN a ELSE b

\* lines 163-167
X1(b) == b[1]
Y1(b) == b[2]
X2(b) == b[1] + b[3]
Y2(b) == b[2] + b[4]
Area(b) == (X2(b) - X1(b)) * (Y2(b) - Y1(b))

\* lines 173-178: w * h of the intersection
Inter(a, b) ==
  Max(0, Min(X2(a), X2(b)) - Max(X1(a), X1(b)))
    * Max(0, Min(Y2(a), Y2(b)) - Max(Y1(a), Y1(b)))

\* the same with a box at the threshold dropped
OverlapBelow(a, b) == Inter(a, b) * ThreshDen < ThreshNum * Area(b)

\* lines 179-180: (w * h) / (area of b + 1e-6) <= overlap_thresh, b stays
OverlapWithin(a, b) ==
  Inter(a, b) * EpsInv * ThreshDen <= ThreshNum * (Area(b) * EpsInv + 1)

\* the positions in any order
OrdersUnsorted(bs) ==
  {p \in [1..Len(bs) -> 1..Len(bs)] : \A k, m \in 1..Len(bs) : p[k] = p[m] => k = m}

\* line 168: the positions by descending area; argsort's default sort is not
\* stable, so boxes of equal area may come in either order
Orders(bs) ==
  {p \in [1..Len(bs) -> 1..Len(bs)] :
     /\ \A k, m \in 1..Len(bs) : p[k] = p[m] => k = m
     /\ \A k \in 1..Len(bs) - 1 : Area(bs[p[k]]) >= Area(bs[p[k + 1]])}

\* lines 170-181: the head is kept and the rest is filtered against it, until
\* nothing is left
RECURSIVE Suppress(_, _)
Suppress(bs, ord) ==
  IF ord = << >> THEN << >>
  ELSE << Head(ord) >>
         \o Suppress(bs, SelectSeq(Tail(ord), LAMBDA j : OverlapWithin(bs[Head(ord)], bs[j])))

\* line 182
Picked(bs, kp) == [k \in 1..Len(kp) |-> bs[kp[k]]]

\* _non_max_suppression(boxes)
NMS_Once ==
  /\ passes = 0
  /\ \E p \in Orders(boxes) :
       /\ order' = p
       /\ keep' = Suppress(boxes, p)
       /\ kept' = Picked(boxes, Suppress(boxes, p))
  /\ passes' = 1
  /\ UNCHANGED << boxes, again >>
  /\ UNCHANGED << geoElse, rotVars >>

\* _non_max_suppression(kept)
NMS_Twice ==
  /\ passes = 1
  /\ \E p \in Orders(kept) : again' = Picked(kept, Suppress(kept, p))
  /\ passes' = 2
  /\ UNCHANGED << boxes, order, keep, kept >>
  /\ UNCHANGED << geoElse, rotVars >>

\* a list of boxes is about to be given to _non_max_suppression
InitNMS ==
  /\ AllIdle
  /\ MgrInit
  /\ RotIdle
  /\ CrowdInit
  /\ FaceInit
  /\ WdInit
  /\ boxes \in BoxLists
  /\ order = << >>
  /\ keep = << >>
  /\ kept = << >>
  /\ again = << >>
  /\ passes = 0

NextNMS == NMS_Once \/ NMS_Twice

\* _non_max_suppression applied to a list of boxes and then to its own result
SpecNMS == InitNMS /\ [][NextNMS]_vars

\* ------------------------------------------- CrowdDetector._map_rotated_rect
MaxDim == 4   \* largest frame width and height, and largest rectangle side

Rotations == {"cw", "ccw", "none"}
Shapes == (1..MaxDim) \X (1..MaxDim)
Rects == (0..MaxDim) \X (0..MaxDim) \X (1..MaxDim) \X (1..MaxDim)

\* lines 133-138; the float32 values are whole numbers
Corners(r) ==
  {<< r[1], r[2] >>, << r[1] + r[3], r[2] >>, << r[1], r[2] + r[4] >>,
   << r[1] + r[3], r[2] + r[4] >>}

\* lines 108-109, cv2.rotate: where the pixel p = (x, y) of the h x w frame is
\* in the rotated frame. ROTATE_90_CLOCKWISE moves the top left corner to the
\* top right (the rotated frame is h wide), ROTATE_90_COUNTERCLOCKWISE moves
\* it to the bottom left (the rotated frame is w high)
RotatedPos(p, h, w, rot) ==
  IF rot = "cw" THEN << h - 1 - p[2], p[1] >>
  ELSE IF rot = "ccw" THEN << p[2], w - 1 - p[1] >>
  ELSE p

MapPointUnrotated(p, h, w, rot) == p

\* lines 141-148
MapPoint(p, h, w, rot) ==
  IF rot = "cw" THEN << w - 1 - p[2], p[1] >>
  ELSE IF rot = "ccw" THEN << p[2], h - 1 - p[1] >>
  ELSE p

\* np.clip
Clip(v, lo, hi) == Min(Max(v, lo), hi)

Least(S) == CHOOSE v \in S : \A u \in S : v <= u
Greatest(S) == CHOOSE v \in S : \A u \in S : v >= u

\* lines 131-157; int() of a whole number changes nothing
MapRotatedRect(r, shape, rot) ==
  LET h == shape[1]
      w == shape[2]
      mapped_points == {MapPoint(p, h, w, rot) : p \in Corners(r)}
      xs == {p[1] : p \in mapped_points}
      ys == {p[2] : p \in mapped_points}
      x_min == Clip(Least(xs), 0, w - 1)
      y_min == Clip(Least(ys), 0, h - 1)
      x_max == Clip(Greatest(xs), 0, w - 1)
      y_max == Clip(Greatest(ys), 0, h - 1)
  IN << x_min, y_min, Max(1, x_max - x_min), Max(1, y_max - y_min) >>

\* _map_rotated_rect(rect, original_shape, rotation)
Rot_Map ==
  /\ mapped = << >>
  /\ mapped' = MapRotatedRect(rect, original_shape, rotation)
  /\ UNCHANGED << original_shape, rect, rotation >>
  /\ UNCHANGED << geoElse, nmsVars >>

\* a rectangle found in a rotated frame is about to be mapped back
InitRot ==
  /\ AllIdle
  /\ MgrInit
  /\ NmsIdle
  /\ CrowdInit
  /\ FaceInit
  /\ WdInit
  /\ original_shape \in Shapes
  /\ rect \in Rects
  /\ rotation \in Rotations
  /\ mapped = << >>

NextRot == Rot_Map

\* _map_rotated_rect applied to one rectangle
SpecRot == InitRot /\ [][NextRot]_vars

\* ------------------------------------------------ CrowdDetector.detect_faces
crowdElse == << pfVars, camVars, rdVars, mgrVars, nmsVars, rotVars, faceVars, wdVars >>

MaxDetect == 7   \* detect_faces calls made in one run

\* smoothing_window=5 (src/app.py line 72)
smoothing_window == 5

\* the raw counts len(verified_faces) drawn for a call
FewFaces == 2
ManyFaces == 9
RawCounts == {FewFaces, ManyFaces}

\* the camera whose calls are followed: the lists of two cameras never meet
CrowdCams == {MainCamera}

\* the k-th smallest value of a list
Kth(s, k) ==
  CHOOSE v \in {s[i] : i \in 1..Len(s)} :
    /\ Cardinality({i \in 1..Len(s) : s[i] < v}) < k
    /\ Cardinality({i \in 1..Len(s) : s[i] <= v}) >= k

\* line 85: int(np.median(list)); the median of an even number of values is
\* the mean of the two middle ones and int() drops the half
TruncMedian(s) ==
  IF Len(s) % 2 = 1 THEN Kth(s, (Len(s) + 1) \div 2)
  ELSE (Kth(s, Len(s) \div 2) + Kth(s, Len(s) \div 2 + 1)) \div 2

\* a pipeline calls detect_faces(frame, c) and finds n faces (lines 59-71)
Det_Call(p, c, n) ==
  /\ det[p].pc = "idle"
  /\ ndet < MaxDetect
  /\ ndet' = ndet + 1
  /\ det' = [det EXCEPT ![p] = [IdleDet EXCEPT !.pc = "D74", !.cam = c, !.count = n]]
  /\ UNCHANGED << tracked, recent_counts, current_counts, arrived >>
  /\ UNCHANGED crowdElse

\* line 74
Det_CheckNew(p) ==
  /\ det[p].pc = "D74"
  /\ det' = [det EXCEPT ![p].pc = IF det[p].cam \in tracked THEN "D78" ELSE "D75"]
  /\ UNCHANGED << tracked, recent_counts, current_counts, arrived, ndet >>
  /\ UNCHANGED crowdElse

\* lines 75-76
Det_Init(p) ==
  /\ det[p].pc = "D75"
  /\ tracked' = tracked \cup {det[p].cam}
  /\ recent_counts' = [recent_counts EXCEPT ![det[p].cam] = << >>]
  /\ current_counts' = [current_counts EXCEPT ![det[p].cam] = 0]
  /\ det' = [det EXCEPT ![p].pc = "D78"]
  /\ UNCHANGED << arrived, ndet >>
  /\ UNCHANGED crowdElse

\* line 78
Det_Append(p) ==
  /\ det[p].pc = "D78"
  /\ recent_counts' = [recent_counts EXCEPT ![det[p].cam] = Append(@, det[p].count)]
  /\ arrived' = [arrived EXCEPT ![det[p].cam] = Append(@, det[p].count)]
  /\ det' = [det EXCEPT ![p].pc = "D79", ![p].at = Len(arrived[det[p].cam]) + 1]
  /\ UNCHANGED << tracked, current_counts, ndet >>
  /\ UNCHANGED crowdElse

\* line 79
Det_CheckLen(p) ==
  /\ det[p].pc = "D79"
  /\ det' = [det EXCEPT ![p].pc = IF Len(recent_counts[det[p].cam]) > smoothing_window
                                  THEN "D80" ELSE "D83"]
  /\ UNCHANGED << tracked, recent_counts, current_counts, arrived, ndet >>
  /\ UNCHANGED crowdElse

\* line 80: pop(0); on an empty list it raises IndexError, which ends the call
Det_Pop(p) ==
  /\ det[p].pc = "D80"
  /\ IF recent_counts[det[p].cam] = << >>
       THEN /\ det' = [det EXCEPT ![p].pc = "idle", ![p].raised = TRUE]
            /\ UNCHANGED recent_counts
       ELSE /\ recent_counts' = [recent_counts EXCEPT ![det[p].cam] = Tail(@)]
            /\ det' = [det EXCEPT ![p].pc = "D83"]
  /\ UNCHANGED << tracked, current_counts, arrived, ndet >>
  /\ UNCHANGED crowdElse

\* lines 83-85 and 88: the value to be stored, from the list as it is now
Det_Median(p) ==
  /\ det[p].pc = "D83"
  /\ det' = [det EXCEPT ![p].pc = "D86",
                        ![p].smoothed = IF recent_counts[det[p].cam] # << >>
                                          THEN TruncMedian(recent_counts[det[p].cam])
                                          ELSE det[p].count]
  /\ UNCHANGED << tracked, recent_counts, current_counts, arrived, ndet >>
  /\ UNCHANGED crowdElse

\* lines 86 and 88
Det_Store(p) ==
  /\ det[p].pc = "D86"
  /\ current_counts' = [current_counts EXCEPT ![det[p].cam] = det[p].smoothed]
  /\ det' = [det EXCEPT ![p].pc = "D98"]
  /\ UNCHANGED << tracked, recent_counts, arrived, ndet >>
  /\ UNCHANGED crowdElse

\* line 98
Det_Return(p) ==
  /\ det[p].pc = "D98"
  /\ det' = [det EXCEPT ![p].pc = "idle", ![p].ret = current_counts[det[p].cam]]
  /\ UNCHANGED << tracked, recent_counts, current_counts, arrived, ndet >>
  /\ UNCHANGED crowdElse

InitCrowd == InitCam

NextCrowd ==
  \/ \E p \in DetCallers, c \in CrowdCams, n \in RawCounts : Det_Call(p, c, n)
  \/ \E p \in DetCallers : Det_CheckNew(p)
  \/ \E p \in DetCallers : Det_Init(p)
  \/ \E p \in DetCallers : Det_Append(p)
  \/ \E p \in DetCallers : Det_CheckLen(p)
  \/ \E p \in DetCallers : Det_Pop(p)
  \/ \E p \in DetCallers : Det_Median(p)
  \/ \E p \in DetCallers : Det_Store(p)
  \/ \E p \in DetCallers : Det_Return(p)

\* the 'crowd' and the 'all' pipeline calling one CrowdDetector
SpecCrowd == InitCrowd /\ [][NextCrowd]_vars

\* ------------------------------------------------------------ FaceRecognizer
faceElse == << pfVars, camVars, rdVars, mgrVars, nmsVars, rotVars, crowdVars, wdVars >>

MaxFaceOps == 3   \* FaceRecognizer calls made in one run

\* what no call assigns
faceFixed == << threshold_arg, match_threshold, engine, face_cascade >>

\* has_reference, lines 246-249
HasReference ==
  IF engine = "facenet" THEN reference_embedding # 0 ELSE reference_template # 0

\* a call returns its value, or ends with an exception
FaceDone(c, result) == [fc EXCEPT ![c].pc = "idle", ![c].result = result]
FaceRaised(c) == [fc EXCEPT ![c].pc = "idle", ![c].raised = TRUE]

\* a caller (a request thread or a stream's pipeline) makes its next call; an
\* upload carries the number of the call as its image and its name
Face_Call(c, op) ==
  /\ fc[c].pc = "idle"
  /\ nface < MaxFaceOps
  /\ nface' = nface + 1
  /\ fc' = [fc EXCEPT ![c] = [IdleFace EXCEPT !.op = op, !.id = nface + 1,
                !.pc = CASE op = "upload_reference_face" -> "U121"
                         [] op = "clear_reference" -> "C239"
                         [] OTHER -> "M200"]]
  /\ UNCHANGED << faceFixed, refVars >>
  /\ UNCHANGED faceElse

\* lines 121-123
Up_Cascade(c) ==
  /\ fc[c].pc = "U121"
  /\ fc' = IF face_cascade THEN [fc EXCEPT ![c].pc = "U125"] ELSE FaceDone(c, FALSE)
  /\ UNCHANGED << faceFixed, refVars, nface >>
  /\ UNCHANGED faceElse

\* lines 125-143: decode, resize, detect, crop: one of them fails (or raises,
\* lines 166-168), or all succeed
Up_Prepare(c, ok) ==
  /\ fc[c].pc = "U125"
  /\ fc' = IF ok THEN [fc EXCEPT ![c].pc = "U145"] ELSE FaceDone(c, FALSE)
  /\ UNCHANGED << faceFixed, refVars, nface >>
  /\ UNCHANGED faceElse

\* lines 145-149 and 153-157: the signature is computed, or is not
Up_Signature(c, ok) ==
  /\ fc[c].pc = "U145"
  /\ fc' = IF ~ok THEN FaceDone(c, FALSE)
           ELSE IF engine = "facenet" THEN [fc EXCEPT ![c].pc = "U150"]
           ELSE [fc EXCEPT ![c].pc = "U158"]
  /\ UNCHANGED << faceFixed, refVars, nface >>
  /\ UNCHANGED faceElse

\* line 150
Up_Embedding(c) ==
  /\ fc[c].pc = "U150"
  /\ reference_embedding' = fc[c].id
  /\ fc' = [fc EXCEPT ![c].pc = "U151", ![c].wrote = TRUE]
  /\ UNCHANGED << faceFixed, reference_template, reference_descriptors,
                  reference_histogram, reference_name, nface >>
  /\ UNCHANGED faceElse

\* line 158
Up_Template(c) ==
  /\ fc[c].pc = "U158"
  /\ reference_template' = fc[c].id
  /\ fc' = [fc EXCEPT ![c].pc = "U159", ![c].wrote = TRUE]
  /\ UNCHANGED << faceFixed, reference_embedding, reference_descriptors,
                  reference_histogram, reference_name, nface >>
  /\ UNCHANGED faceElse

\* line 159
Up_Descriptors(c) ==
  /\ fc[c].pc = "U159"
  /\ reference_descriptors' = fc[c].id
  /\ fc' = [fc EXCEPT ![c].pc = "U160"]
  /\ UNCHANGED << faceFixed, reference_embedding, reference_template,
                  reference_histogram, reference_name, nface >>
  /\ UNCHANGED faceElse

\* line 160
Up_Histogram(c) ==
  /\ fc[c].pc = "U160"
  /\ reference_histogram' = fc[c].id
  /\ fc' = [fc EXCEPT ![c].pc = "U161"]
  /\ UNCHANGED << faceFixed, reference_embedding, reference_template,
                  reference_descriptors, reference_name, nface >>
  /\ UNCHANGED faceElse

\* lines 151 and 161: print of a message that holds the caller's name; it
\* returns, or raises when the output stream cannot encode the name or is
\* closed, and lines 166-168 turn the exception into False
Up_Print(c, ok) ==
  /\ fc[c].pc \in {"U151", "U161"}
  /\ fc' = IF ok THEN [fc EXCEPT ![c].pc = "U163"] ELSE FaceDone(c, FALSE)
  /\ UNCHANGED << faceFixed, refVars, nface >>
  /\ UNCHANGED faceElse

\* lines 163-164
Up_Name(c) ==
  /\ fc[c].pc = "U163"
  /\ reference_name' = fc[c].id
  /\ fc' = FaceDone(c, TRUE)
  /\ UNCHANGED << faceFixed, reference_embedding, reference_template,
                  reference_descriptors, reference_histogram, nface >>
  /\ UNCHANGED faceElse

\* clear_reference, lines 239-243, one assignment at a time
Clear_Embedding(c) ==
  /\ fc[c].pc = "C239"
  /\ reference_embedding' = 0
  /\ fc' = [fc EXCEPT ![c].pc = "C240"]
  /\ UNCHANGED << faceFixed, reference_template, reference_descriptors,
                  reference_histogram, reference_name, nface >>
  /\ UNCHANGED faceElse

Clear_Template(c) ==
  /\ fc[c].pc = "C240"
  /\ reference_template' = 0
  /\ fc' = [fc EXCEPT ![c].pc = "C241"]
  /\ UNCHANGED << faceFixed, reference_embedding, reference_descriptors,
                  reference_histogram, reference_name, nface >>
  /\ UNCHANGED faceElse

Clear_Descriptors(c) ==
  /\ fc[c].pc = "C241"
  /\ reference_descriptors' = 0
  /\ fc' = [fc EXCEPT ![c].pc = "C242"]
  /\ UNCHANGED << faceFixed, reference_embedding, reference_template,
                  reference_histogram, reference_name, nface >>
  /\ UNCHANGED faceElse

Clear_Histogram(c) ==
  /\ fc[c].pc = "C242"
  /\ reference_histogram' = 0
  /\ fc' = [fc EXCEPT ![c].pc = "C243"]
  /\ UNCHANGED << faceFixed, reference_embedding, reference_template,
                  reference_descriptors, reference_name, nface >>
  /\ UNCHANGED faceElse

Clear_Name(c) ==
  /\ fc[c].pc = "C243"
  /\ reference_name' = 0
  /\ fc' = FaceDone(c, TRUE)
  /\ UNCHANGED << faceFixed, reference_embedding, reference_template,
                  reference_descriptors, reference_histogram, nface >>
  /\ UNCHANGED faceElse

\* detect_and_match, lines 200-201 (the frame is a frame)
Match_Cascade(c) ==
  /\ fc[c].pc = "M200"
  /\ fc' = IF face_cascade THEN [fc EXCEPT ![c].pc = "M203"] ELSE FaceDone(c, TRUE)
  /\ UNCHANGED << faceFixed, refVars, nface >>
  /\ UNCHANGED faceElse

\* lines 203-204 without the test: the call goes on to line 206
Match_NoTest(c) ==
  /\ fc[c].pc = "M203"
  /\ fc' = [fc EXCEPT ![c].pc = "M206", ![c].checked = TRUE,
                      ![c].stored = HasReference]
  /\ UNCHANGED << faceFixed, refVars, nface >>
  /\ UNCHANGED faceElse

\* lines 203-204
Match_HasReference(c) ==
  /\ fc[c].pc = "M203"
  /\ fc' = IF HasReference
           THEN [fc EXCEPT ![c].pc = "M206", ![c].checked = TRUE, ![c].stored = TRUE]
           ELSE [FaceDone(c, TRUE) EXCEPT ![c].checked = TRUE]
  /\ UNCHANGED << faceFixed, refVars, nface >>
  /\ UNCHANGED faceElse

\* lines 206-215: detection finds n faces and the frame is copied; with no
\* face, or a face that cannot be cropped, the copy is returned (line 233)
Match_Detect(c, n, crop) ==
  /\ fc[c].pc = "M206"
  /\ fc' = IF n > 0 /\ crop
           THEN [fc EXCEPT ![c].pc = "M217", ![c].ran = TRUE, ![c].copied = TRUE,
                           ![c].faces = n]
           ELSE [FaceDone(c, TRUE) EXCEPT ![c].ran = TRUE, ![c].copied = TRUE,
                                          ![c].faces = n]
  /\ UNCHANGED << faceFixed, refVars, nface >>
  /\ UNCHANGED faceElse

\* line 217
Match_Branch(c) ==
  /\ fc[c].pc = "M217"
  /\ fc' = IF engine = "facenet" /\ reference_embedding # 0
           THEN [fc EXCEPT ![c].pc = "M174"]
           ELSE [fc EXCEPT ![c].pc = "M181"]
  /\ UNCHANGED << faceFixed, refVars, nface >>
  /\ UNCHANGED faceElse

\* _match_with_facenet, lines 174-176: the embedding of the face is computed
\* (or not) and the reference is tested
Match_FacenetTest(c, ok) ==
  /\ fc[c].pc = "M174"
  /\ fc' = IF ok /\ reference_embedding # 0
           THEN [fc EXCEPT ![c].pc = "M177", ![c].computed = TRUE]
           ELSE [fc EXCEPT ![c].pc = "M224", ![c].computed = TRUE]
  /\ UNCHANGED << faceFixed, refVars, nface >>
  /\ UNCHANGED faceElse

\* lines 177-178: the reference is read again; the dot product with None
\* raises, and no similarity is >= a threshold that is not a number
Match_FacenetCompare(c, similar) ==
  /\ fc[c].pc = "M177"
  /\ fc' = IF reference_embedding = 0 THEN FaceRaised(c)
           ELSE [fc EXCEPT ![c].pc = "M224", ![c].sig = reference_embedding,
                           ![c].match = similar /\ ~match_threshold.nan]
  /\ UNCHANGED << faceFixed, refVars, nface >>
  /\ UNCHANGED faceElse

\* _match_with_template, lines 181-186: the features of the face are
\* computed and the reference descriptors are tested
Match_TemplateTest(c) ==
  /\ fc[c].pc = "M181"
  /\ fc' = IF reference_descriptors # 0
           THEN [fc EXCEPT ![c].pc = "M187", ![c].computed = TRUE]
           ELSE [fc EXCEPT ![c].pc = "M192", ![c].computed = TRUE]
  /\ UNCHANGED << faceFixed, refVars, nface >>
  /\ UNCHANGED faceElse

\* lines 187-190: the reference descriptors are read again for the matcher
\* and for their length; None raises
Match_TemplateRatio(c, good) ==
  /\ fc[c].pc = "M187"
  /\ fc' = IF reference_descriptors = 0 THEN FaceRaised(c)
           ELSE [fc EXCEPT ![c].pc = "M192", ![c].sig = reference_descriptors,
                           ![c].ratio = good]
  /\ UNCHANGED << faceFixed, refVars, nface >>
  /\ UNCHANGED faceElse

\* line 192
Match_HistTest(c) ==
  /\ fc[c].pc = "M192"
  /\ fc' = IF reference_histogram # 0 THEN [fc EXCEPT ![c].pc = "M193"]
           ELSE [fc EXCEPT ![c].pc = "M196"]
  /\ UNCHANGED << faceFixed, refVars, nface >>
  /\ UNCHANGED faceElse

\* lines 193-194: the reference histogram is read again; None raises
Match_HistScore(c, good) ==
  /\ fc[c].pc = "M193"
  /\ fc' = IF reference_histogram = 0 THEN FaceRaised(c)
           ELSE [fc EXCEPT ![c].pc = "M196", ![c].hist = good,
                   ![c].sig = IF fc[c].sig = 0 THEN reference_histogram ELSE fc[c].sig]
  /\ UNCHANGED << faceFixed, refVars, nface >>
  /\ UNCHANGED faceElse

\* lines 196-197: 0.7 * ratio + 0.3 * score reaches template_threshold only
\* when one of them is positive
Match_TemplateCombine(c, enough) ==
  /\ fc[c].pc = "M196"
  /\ fc' = [fc EXCEPT ![c].pc = "M224",
                      ![c].match = enough /\ (fc[c].ratio \/ fc[c].hist)]
  /\ UNCHANGED << faceFixed, refVars, nface >>
  /\ UNCHANGED faceElse

\* lines 224-233: the label of a match reads reference_name
Match_Return(c) ==
  /\ fc[c].pc = "M224"
  /\ fc' = IF fc[c].match
           THEN [FaceDone(c, TRUE) EXCEPT ![c].label = reference_name]
           ELSE FaceDone(c, TRUE)
  /\ UNCHANGED << faceFixed, refVars, nface >>
  /\ UNCHANGED faceElse

\* a recognizer constructed with any of the thresholds, with or without the
\* FaceNet model and the Haar cascade
InitFace ==
  /\ AllIdle
  /\ MgrInit
  /\ NmsIdle
  /\ RotIdle
  /\ CrowdInit
  /\ WdInit
  /\ \E t \in ThresholdArgs, facenet \in BOOLEAN, cascade \in BOOLEAN :
       FaceConstructed(t, facenet, cascade)

NextFace ==
  \/ \E c \in FaceCallers, op \in FaceOps : Face_Call(c, op)
  \/ \E c \in FaceCallers : Up_Cascade(c)
  \/ \E c \in FaceCallers, ok \in BOOLEAN : Up_Prepare(c, ok)
  \/ \E c \in FaceCallers, ok \in BOOLEAN : Up_Signature(c, ok)
  \/ \E c \in FaceCallers : Up_Embedding(c)
  \/ \E c \in FaceCallers : Up_Template(c)
  \/ \E c \in FaceCallers : Up_Descriptors(c)
  \/ \E c \in FaceCallers : Up_Histogram(c)
  \/ \E c \in FaceCallers, ok \in BOOLEAN : Up_Print(c, ok)
  \/ \E c \in FaceCallers : Up_Name(c)
  \/ \E c \in FaceCallers : Clear_Embedding(c)
  \/ \E c \in FaceCallers : Clear_Template(c)
  \/ \E c \in FaceCallers : Clear_Descriptors(c)
  \/ \E c \in FaceCallers : Clear_Histogram(c)
  \/ \E c \in FaceCallers : Clear_Name(c)
  \/ \E c \in FaceCallers : Match_Cascade(c)
  \/ \E c \in FaceCallers : Match_HasReference(c)
  \/ \E c \in FaceCallers, n \in 0..1, crop \in BOOLEAN : Match_Detect(c, n, crop)
  \/ \E c \in FaceCallers : Match_Branch(c)
  \/ \E c \in FaceCallers, ok \in BOOLEAN : Match_FacenetTest(c, ok)
  \/ \E c \in FaceCallers, similar \in BOOLEAN : Match_FacenetCompare(c, similar)
  \/ \E c \in FaceCallers : Match_TemplateTest(c)
  \/ \E c \in FaceCallers, good \in BOOLEAN : Match_TemplateRatio(c, good)
  \/ \E c \in FaceCallers : Match_HistTest(c)
  \/ \E c \in FaceCallers, good \in BOOLEAN : Match_HistScore(c, good)
  \/ \E c \in FaceCallers, enough \in BOOLEAN : Match_TemplateCombine(c, enough)
  \/ \E c \in FaceCallers : Match_Return(c)

SpecFace == InitFace /\ [][NextFace]_vars

\* ------------------------------------------------------------ WeaponDetector
wdElse ==
  << processed_frames, buckets, frame_locks, lock_holder, th, ret, nreq, cameras, slot,
     camLock, camVars, rdVars, mgrVars, nmsVars, rotVars, crowdVars, faceVars >>

MaxWeapon == 2   \* detect_weapons calls made in one run
\* the clock's last tick in a run of the detector: an entry stored at 0 is
\* stale then
MaxWdTime == cache_ttl + 1

\* the call returns frame f with the summary (detected, n)
WdReturn(p, f, detected, n) ==
  [wd EXCEPT ![p].pc = "idle", ![p].out = f, ![p].weapon_detected = detected,
             ![p].detections = n]

\* a pipeline calls detect_weapons(frame, camera_id) with the copy it made of
\* the camera's frame
Wd_Call(p, c) ==
  /\ wd[p].pc = "idle"
  /\ nwd < MaxWeapon
  /\ nwd' = nwd + 1
  /\ wd' = [wd EXCEPT ![p] = [IdleWd EXCEPT !.pc = "W102", !.cam = c,
                                            !.frame = InputFrame(p, c, nwd + 1)]]
  /\ UNCHANGED << clock, model_loaded, inference_lock, wcache, invoked >>
  /\ UNCHANGED wdElse

\* lines 102-103 without the test of model_loaded
Wd_LoadedNoTest(p) ==
  /\ wd[p].pc = "W102"
  /\ wd' = [wd EXCEPT ![p].pc = "W105"]
  /\ UNCHANGED << clock, model_loaded, inference_lock, wcache, nwd, invoked >>
  /\ UNCHANGED wdElse

\* lines 102-103
Wd_Loaded(p) ==
  /\ wd[p].pc = "W102"
  /\ wd' = IF model_loaded THEN [wd EXCEPT ![p].pc = "W105"]
           ELSE WdReturn(p, wd[p].frame, FALSE, 0)
  /\ UNCHANGED << clock, model_loaded, inference_lock, wcache, nwd, invoked >>
  /\ UNCHANGED wdElse

\* lines 105-109: a fresh entry of the camera is returned as it is
Wd_Cache(p) ==
  /\ wd[p].pc = "W105"
  /\ LET cached == wcache[wd[p].cam] IN
       wd' = IF WFresh(wd[p].cam)
             THEN [WdReturn(p, cached.frame, cached.weapon_detected, cached.detections)
                     EXCEPT ![p].looked = TRUE, ![p].hit = TRUE, ![p].at = clock]
             ELSE [wd EXCEPT ![p].pc = "W112", ![p].looked = TRUE, ![p].at = clock]
  /\ UNCHANGED << clock, model_loaded, inference_lock, wcache, nwd, invoked >>
  /\ UNCHANGED wdElse

\* line 112 without waiting for the lock
Wd_AcquireNoWait(p) ==
  /\ wd[p].pc = "W112"
  /\ inference_lock' = p
  /\ wd' = [wd EXCEPT ![p].pc = "W114", ![p].locked = TRUE]
  /\ UNCHANGED << clock, model_loaded, wcache, nwd, invoked >>
  /\ UNCHANGED wdElse

\* line 112: with self.inference_lock
Wd_Acquire(p) ==
  /\ wd[p].pc = "W112"
  /\ inference_lock = 0
  /\ inference_lock' = p
  /\ wd' = [wd EXCEPT ![p].pc = "W114", ![p].locked = TRUE]
  /\ UNCHANGED << clock, model_loaded, wcache, nwd, invoked >>
  /\ UNCHANGED wdElse

\* line 114: the backend runs under the lock and returns n detections of the
\* target classes, or raises (a backend that never loaded is None, and the
\* call of None raises); leaving the with block releases the lock either way
Wd_Infer(p, ok, n) ==
  /\ wd[p].pc = "W114"
  /\ inference_lock' = 0
  /\ LET done == ok /\ model_loaded IN
       /\ wd' = IF done
                THEN [wd EXCEPT ![p].pc = "W116", ![p].ran = TRUE, ![p].detections = n]
                ELSE [wd EXCEPT ![p].pc = "W159", ![p].ran = TRUE, ![p].failed = TRUE]
       /\ invoked' = [invoked EXCEPT ![wd[p].cam] =
                        Append(@, [at |-> wd[p].at, ok |-> done])]
  /\ UNCHANGED << clock, model_loaded, wcache, nwd >>
  /\ UNCHANGED wdElse

\* lines 116-157: the detections are drawn on a copy of the frame, the copy
\* is cached with the summary under the camera id, and returned
Wd_Store(p) ==
  /\ wd[p].pc = "W116"
  /\ LET n == wd[p].detections
         annotated == IF n > 0 THEN Draw(wd[p].frame, "weapon") ELSE wd[p].frame
     IN /\ wcache' = [wcache EXCEPT ![wd[p].cam] =
                        [frame |-> annotated, weapon_detected |-> n > 0,
                         detections |-> n, timestamp |-> clock]]
        /\ wd' = WdReturn(p, annotated, n > 0, n)
  /\ UNCHANGED << clock, model_loaded, inference_lock, nwd, invoked >>
  /\ UNCHANGED wdElse

\* lines 159-161
Wd_Except(p) ==
  /\ wd[p].pc = "W159"
  /\ wd' = WdReturn(p, wd[p].frame, FALSE, 0)
  /\ UNCHANGED << clock, model_loaded, inference_lock, wcache, nwd, invoked >>
  /\ UNCHANGED wdElse

\* time passes
Wd_Tick ==
  /\ clock < MaxWdTime
  /\ clock' = clock + 1
  /\ UNCHANGED << model_loaded, inference_lock, wcache, wd, nwd, invoked >>
  /\ UNCHANGED wdElse

\* WeaponDetector.__init__, lines 35-60: the backend loaded, or it did not
InitWD ==
  /\ RestIdle
  /\ model_loaded \in BOOLEAN
  /\ ExtInit

NextWD ==
  \/ \E p \in WdCallers, c \in Cameras : Wd_Call(p, c)
  \/ \E p \in WdCallers : Wd_Loaded(p)
  \/ \E p \in WdCallers : Wd_Cache(p)
  \/ \E p \in WdCallers : Wd_Acquire(p)
  \/ \E p \in WdCallers, ok \in BOOLEAN, n \in 0..1 : Wd_Infer(p, ok, n)
  \/ \E p \in WdCallers : Wd_Store(p)
  \/ \E p \in WdCallers : Wd_Except(p)
  \/ Wd_Tick

SpecWD == InitWD /\ [][NextWD]_vars

\* =================================================== claims on process_frame
\* the capture+detect+encode section: everything after the second check
InBody(t) ==
  th[t].pc \in {"R117", "R118", "L123", "L140", "L145", "L165", "W102", "W112", "W114",
                "W149", "L180"}

\* an entry exists and is at most FRAME_CACHE_TTL old at time now
IsFresh(e, now) == e.timestamp >= 0 /\ now - e.timestamp <= FRAME_CACHE_TTL

Hit(t) == ret[t].how \in {"hit1", "hit2"}
Executed(t) == ret[t].how \in {"computed", "placeholder"}

\* C1 as stated: the handlers each made one request, all for the same key, all
\* arriving at the same instant (so within one FRAME_CACHE_TTL window) on an
\* empty cache, and none raised; then exactly one of them executed the body.
C1_ExactlyOnce ==
  ( /\ nreq = Cardinality(Threads)
    /\ \A t \in Threads : (Hit(t) \/ Executed(t)) /\ ret[t].together
    /\ \A t, u \in Threads : ret[t].key = ret[u].key )
  => Cardinality({t \in Threads : Executed(t)}) = 1

\* C1 as amended: the body for a key is executed only while that key has no
\* Fresh entry (none, or one older than FRAME_CACHE_TTL); the entry found at
\* the re-check stays the key's entry during the whole execution.
C1_BodyOnlyWhenStale ==
  \A t \in Threads : InBody(t) => ~IsFresh(Entry(CamOf(t), StageOf(t)), clock)

\* two concurrent requests for one key, coalesced: one executed the body, the
\* other waited for the lock and returned the published entry at its re-check
C1_Witness ==
  \E t, u \in Threads :
    /\ ret[t].how = "computed" /\ ret[u].how = "hit2"
    /\ ret[t].key = ret[u].key

\* C2: at most one thread is in the capture+detect+encode section for a key,
\* and all threads that obtained the key's lock obtained the same lock object.
C2_MutualExclusion ==
  \A t, u \in Threads :
    (t # u /\ th[t].key = th[u].key /\ th[t].lock # 0 /\ th[u].lock # 0)
    => /\ th[t].lock = th[u].lock
       /\ ~(InBody(t) /\ InBody(u))

\* a thread is computing a key while another waits for the same key's lock
C2_Witness ==
  \E t, u \in Threads :
    /\ InBody(t) /\ th[u].pc = "L114"
    /\ th[t].key = th[u].key

\* thread t is blocked on a lock that thread u holds
WaitsOnFrameLock(t, u) == th[t].pc = "L114" /\ lock_holder[LockObj(t)] = u
WaitsOnCamLock(t, u) == th[t].pc = "R117" /\ camLock[CamOf(t)] = u
WaitsOnInference(t, u) == th[t].pc = "W112" /\ inference_lock = u
WaitsOn(t, u) == WaitsOnFrameLock(t, u) \/ WaitsOnCamLock(t, u) \/ WaitsOnInference(t, u)

\* C3 as stated: a request waits only on a lock held by a request with the
\* identical (camera, stage) key.
C3_KeyIndependence ==
  \A t, u \in Threads : (t # u /\ WaitsOn(t, u)) => th[t].key = th[u].key

\* C3 as amended: a request waits on a per-key frame lock only when the holder
\* has the identical key; requests with different keys wait for each other
\* only on the stream lock of a camera they both read and on the threat
\* stage's inference lock, which 'weapon' and 'all' requests share.
C3_FrameLocksPerKey ==
  \A t, u \in Threads :
    (t # u /\ WaitsOn(t, u) /\ th[t].key # th[u].key)
    => \/ WaitsOnCamLock(t, u) /\ CamOf(t) = CamOf(u)
       \/ /\ WaitsOnInference(t, u)
          /\ {StageOf(t), StageOf(u)} \subseteq {"weapon", "all"}

\* a request waits for the inference lock held by a request for another key
C3_Witness ==
  \E t, u \in Threads : WaitsOnInference(t, u) /\ th[t].key # th[u].key

\* C4: an entry returned as a cache hit is at most FRAME_CACHE_TTL older than
\* the time the check sampled (line 108 for the first check, line 117 for the
\* re-check), at both checks.
C4_HitStep ==
  \A t \in Threads :
    (ret[t].how = "pending" /\ ret'[t].how \in {"hit1", "hit2"})
    => LET e == Entry(CamOf(t), StageOf(t))
           sampled == IF ret'[t].how = "hit1" THEN th[t].now ELSE clock
       IN e # NoEntry /\ sampled - e.timestamp <= FRAME_CACHE_TTL

C4_NoStaleHit == [][C4_HitStep]_vars

\* both kinds of hit have been returned
C4_Witness == \E t, u \in Threads : ret[t].how = "hit1" /\ ret[u].how = "hit2"

\* C5: with a Fresh entry for its key, a request at the first check can always
\* take its step, whoever holds the key's lock, and that step returns the
\* entry and leaves every lock as it was.
C5_FreshAtFirstCheck(t) ==
  th[t].pc = "L109" /\ IsFresh(Entry(CamOf(t), StageOf(t)), th[t].now)

C5_HitStep ==
  \A t \in Threads :
    (C5_FreshAtFirstCheck(t) /\ th'[t] # th[t])
    => /\ th'[t].pc = "idle" /\ ret'[t].how = "hit1"
       /\ UNCHANGED << frame_locks, lock_holder, camLock, inference_lock >>

C5_NeverBlocked == \A t \in Threads : C5_FreshAtFirstCheck(t) => ENABLED PF_FirstCheck(t)

C5_LockFreeHit == []C5_NeverBlocked /\ [][C5_HitStep]_vars

\* a first-check hit was returned while another thread was computing that key
C5_Witness ==
  \E t, u \in Threads :
    /\ ret[t].how = "hit1" /\ th[t].pc = "idle"
    /\ InBody(u) /\ th[u].key = ret[t].key

\* C6: when get_frame gave no frame the placeholder is published with the
\* current time and returned; while that placeholder entry is Fresh no request
\* for the key queries the camera or builds a placeholder.
C6_PublishStep ==
  \A t \in Threads :
    (th[t].pc = "L123" /\ th'[t].pc = "idle")
    => /\ processed_frames'[CamOf(t)][StageOf(t)] =
            [frame |-> Placeholder(CamOf(t)), timestamp |-> clock]
       /\ ret'[t].how = "placeholder" /\ ret'[t].ph

C6_NoThrash ==
  \A t \in Threads :
    LET e == Entry(CamOf(t), StageOf(t)) IN
      (th[t].pc \in {"R117", "R118", "L123"} /\ e.frame = Placeholder(CamOf(t)))
      => clock - e.timestamp > FRAME_CACHE_TTL

C6_PlaceholderCached == []C6_NoThrash /\ [][C6_PublishStep]_vars

\* a later request for the key was served the cached placeholder
C6_Witness == \E t \in Threads : Hit(t) /\ ret[t].ph

\* the thread holds the lock of the key it is working on
HoldsKeyLock(t) ==
  /\ th[t].lock # 0 /\ th[t].lock = frame_locks[LockKey(CamOf(t), StageOf(t))]
  /\ lock_holder[LockObj(t)] = t

\* C7 as stated: every mutation of processed_frames and of its buckets is a
\* step of a thread that holds the lock of its key.
C7_MutationStep ==
  (processed_frames' # processed_frames \/ buckets' # buckets)
  => \E t \in Threads : th'[t] # th[t] /\ HoldsKeyLock(t)

C7_AllMutationsLocked == [][C7_MutationStep]_vars

\* C7 as amended: every write of an entry is a step of a thread that holds the
\* lock of that entry's key, entries are never removed and their timestamps
\* never decrease (only the bucket is created outside the lock, at line 107).
C7_EntryStep ==
  \A c \in Cameras, s \in Stages :
    Entry(c, s)' # Entry(c, s)
    => /\ \E t \in Threads : th[t].key = <<c, s>> /\ th'[t] # th[t] /\ HoldsKeyLock(t)
       /\ Entry(c, s)' # NoEntry
       /\ Entry(c, s)'.timestamp >= Entry(c, s).timestamp

C7_EntriesLocked == [][C7_EntryStep]_vars

\* an entry was replaced by a newer one for the same key
C7_Witness ==
  \E t, u \in Threads :
    /\ t # u /\ Executed(t) /\ Executed(u) /\ ret[t].key = ret[u].key
    /\ Entry(ret[t].key[1], ret[t].key[2]).timestamp > 0

\* =================================================== claims on CameraStream
\* caller c takes a step of its own call
Moves(c) == call'[c].pc # call[c].pc

\* C8: start() on a stream whose running flag is set returns True at once: the
\* call opens no device, launches no loop and changes nothing of the stream.
C8_IdempotentStep ==
  \A c \in Callers :
    (call[c].pc = "S58" /\ running /\ Moves(c))
    => /\ call'[c].pc = "idle" /\ call'[c].result = "True"
       /\ call'[c].opened = "none" /\ call'[c].launched = 0
       /\ UNCHANGED << running, cap, thread, loops >>

C8_Idempotent == [][C8_IdempotentStep]_vars

\* a start() call returned True without an open attempt while a loop was running
C8_Witness ==
  \E c \in Callers :
    /\ call[c].op = "start" /\ call[c].pc = "idle" /\ call[c].result = "True"
    /\ call[c].opened = "none"
    /\ \E l \in LoopIds : loops[l].pc \notin {"none", "done"}

\* C9: a start() call that found running False returns a boolean. When the
\* open failed or threw it returns False, has not set running and has launched
\* nothing (running is False when no other call ran meanwhile); when the open
\* succeeded it has set running, launched exactly one loop and returns True.
C9_Outcome ==
  \A c \in Callers :
    (call[c].op = "start" /\ call[c].pc = "idle" /\ call[c].opened # "none")
    => /\ call[c].result \in {"True", "False"}
       /\ call[c].opened \in {"fail", "throw"}
            => call[c].result = "False" /\ ~call[c].setrun /\ call[c].launched = 0
       /\ call[c].opened = "ok"
            => call[c].result = "True" /\ call[c].setrun /\ call[c].launched = 1

C9_ReturnStep ==
  \A c \in Callers :
    /\ (call[c].pc = "S62" /\ call'[c].pc = "idle")
       => /\ UNCHANGED << running, thread, loops >>
          /\ call[c].alone => ~running'
    /\ (call[c].pc = "S68" /\ call'[c].pc = "idle")
       => /\ Cardinality({l \in LoopIds : loops'[l] # loops[l]}) = 1
          /\ \A l \in LoopIds : loops'[l] # loops[l] => loops[l] = NoLoop /\ thread' = l
          /\ call[c].alone => running'

C10_StopStep ==
  \A c \in Callers :
    (call[c].pc = "L129" /\ call'[c].pc = "idle" /\ call[c].alone)
    => ~running' /\ cap' # "open"

C10_StopReleased == [][C10_StopStep]_vars

\* loop l was launched and has not ended
Alive(l) == loops[l].pc \notin {"none", "done"}

\* C11: a loop that reaches its iteration boundary (line 82) with running
\* False ends there, and a loop that has ended takes no further step, so it
\* stores no frame after the iteration in which the flag was cleared; with
\* every device call and sleep of the loop returning, a live loop eventually
\* ends once running is False (unless running is set again before its boundary).
C11_BoundaryStep ==
  \A l \in LoopIds :
    /\ (loops[l].pc = "L82" /\ ~running /\ loops'[l] # loops[l]) => loops'[l].pc = "done"
    /\ loops[l].pc = "done" => loops'[l] = loops[l]
    /\ (loops'[l].pc = "L104" /\ loops[l].pc # "L104") => loops[l].pc = "L90"

C11_Terminates == \A l \in LoopIds : (Alive(l) /\ ~running) ~> (loops[l].pc = "done" \/ running)

C11_LoopStops == [][C11_BoundaryStep]_vars /\ C11_Terminates

\* a stop() returned after its join found the loop ended, with a frame stored
C11_Witness ==
  /\ \E c \in Callers : call[c].result = "stopped" /\ ~call[c].timedout
  /\ \E l \in LoopIds : loops[l].pc = "done"
  /\ ~running /\ slot[StreamId]

\* C12 as stated: the tenth consecutive failed read (the counter stands at 9
\* before it) takes the loop to its log, sleep and reset, the counter never
\* exceeds 10, a successful read resets it, and a failed read never ends the loop.
C12_ReadStep ==
  \A l \in LoopIds :
    /\ loops'[l].fails <= MaxConsecutiveFailures
    /\ (loops[l].pc = "L90" /\ loops'[l].pc # "L90")
       => /\ loops'[l].pc \in {"L82", "L96", "L104"}
          /\ loops'[l].pc = "L104" => loops'[l].fails = 0
          /\ (loops'[l].pc # "L104" /\ loops'[l].fails # loops[l].fails
                /\ loops[l].fails = MaxConsecutiveFailures - 1)
               => loops'[l].pc = "L96"

C12_ResetAfterTen == [][C12_ReadStep]_vars

\* =============================================== claims on the stream's lock
\* loop l is inside its critical section (lines 105-106)
InStore(l) == loops[l].pc \in {"L105", "L106"}

\* C13: an acquisition loop holds the stream's lock exactly while it is at the
\* two assignments of lines 105-106, never in a device read, a reopen or a
\* sleep, and the only other holders are readers at their copy; whoever holds
\* the lock can take its next step at once, so a reader never waits for
\* device I/O.
C13_LockOnlyAroundStore ==
  /\ \A l \in LoopIds : camLock[StreamId] = LoopHolder(l) <=> InStore(l)
  /\ \A l \in LoopIds : InStore(l) => ENABLED (Loop_SetFrame(l) \/ Loop_SetTime(l))
  /\ \A r \in Readers : camLock[StreamId] = r <=> rd[r].pc = "R118"
  /\ \A r \in Readers : rd[r].pc = "R118" => ENABLED Read_Copy(r)

\* a reader is copying a stored frame while the loop is inside a device call
C13_Witness ==
  \E r \in Readers, l \in LoopIds :
    /\ rd[r].pc = "R118" /\ frame_ts >= 0
    /\ loops[l].pc \in Blocking

\* C14: the capture times of the frames read() returns never decrease, for
\* one reader and across readers (the stored frame is only replaced by a
\* later one), and a read copies the frame while last_update is the one
\* written in the same critical section as that frame.
C14_ReadStep ==
  /\ frame_ts' >= frame_ts
  /\ \A r \in Readers :
       (rd[r].pc = "R118" /\ rd'[r].pc = "idle")
       => /\ rd'[r].got >= rd[r].got
          /\ rd'[r].got = frame_ts
          /\ paired
          /\ frame_ts >= 0 => last_update >= frame_ts

C14_MonotoneReads == [][C14_ReadStep]_vars

\* two readers hold frames captured at different times
C14_Witness ==
  \E r, q \in Readers : rd[r].pc = "idle" /\ rd[q].pc = "idle" /\ rd[q].got >= 0 /\ rd[r].got > rd[q].got

\* ================================================= claims on CameraManager
\* the manager is inside add_camera, and the id it was called with
InAdd ==
  \/ mgr.pc \in {"A142", "D176", "D180"}
  \/ mgr.pc = "F202" /\ mgr.idx < Len(Entries(mgr.cfg))

AddId ==
  CASE mgr.pc = "A142" -> mgr.id
    [] mgr.pc = "D176" -> MainCamera
    [] mgr.pc = "D180" -> ExternalCamera
    [] OTHER -> mgr.idx

C15_AddStep ==
  (InAdd /\ mgr' # mgr) =>
    /\ \A j \in MgrIds \ {AddId} : streams'[j] = streams[j] /\ (j \in cameras' <=> j \in cameras)
    /\ IF AddId \in cameras
         THEN /\ mgr'.added
              /\ mgr'.start = "not called"
              /\ UNCHANGED << cameras, streams, nstreams, initialized >>
         ELSE /\ nstreams' = nstreams + 1
              /\ mgr'.start \in {"True", "False"}
              /\ mgr'.added <=> mgr'.start = "True"
              /\ AddId \in cameras' <=> mgr'.start = "True"
              /\ AddId \in cameras' => streams'[AddId].obj = nstreams' /\ streams'[AddId].running
              /\ AddId \notin cameras' => streams'[AddId] = NoStream

\* C15: add_camera of a registered id returns True, constructs no stream and
\* changes nothing; of any other id it constructs and starts one stream,
\* registers it iff start() returned True and returns that result; so every
\* stream in the registry is one whose start succeeded
C15_AddCamera ==
  /\ [](\A i \in MgrIds : (i \in cameras <=> streams[i] # NoStream)
                          /\ (i \in cameras => streams[i].started))
  /\ [][C15_AddStep]_vars

\* add_camera returned True for an id that was registered before, and
\* another add_camera had a start that failed
C15_Witness ==
  /\ mgr.op = "add_camera" /\ mgr.pc = "done"
  /\ mgr.added /\ mgr.start = "not called"
  /\ nstreams > Cardinality(cameras)

\* initialize_from_sources returned from a call with a non-empty string
SourcesReturned ==
  mgr.op = "initialize_from_sources" /\ mgr.cfg # << >> /\ mgr.pc = "done"

\* C16: when initialize_from_sources returns from a non-empty string, the
\* registry's keys are exactly the indices (counted over the entries, from 0)
\* whose stream started, each such stream was built by this call from the
\* entry of that index, the result is True iff there is such an index, and
\* initialized equals the result
C16_FromSources ==
  SourcesReturned =>
    /\ mgr.result <=> mgr.began # {}
    /\ cameras = mgr.began
    /\ initialized = mgr.result
    /\ \A i \in cameras :
         /\ i < Len(Entries(mgr.cfg))
         /\ streams[i].op = nops
         /\ streams[i].chunk = Entries(mgr.cfg)[i + 1]
         /\ streams[i].running

\* a call that replaced an earlier registry returned True with the first
\* entry's stream failed and the second one's registered under id 1
C16_Witness ==
  /\ SourcesReturned
  /\ mgr.result
  /\ cameras = {1}
  /\ nstreams > Len(Entries(mgr.cfg))

\* every registered stream was built by the call in progress or last returned
OnlyNew == \A i \in cameras : streams[i].op = nops

\* the registry is not a mix of streams of this call and of earlier ones
NoMix == (\E i \in cameras : streams[i].op = nops) => OnlyNew

\* the registry is emptied only of stopped streams
ClearStep ==
  (cameras # {} /\ cameras' = {}) => \A i \in cameras : ~streams[i].running

\* C17, as stated: for every string, in and after initialize_from_sources
\* the registry never mixes streams of this call with earlier ones, is
\* emptied only once its streams are stopped, and at the return holds only
\* running streams built by this call
C17_EveryString ==
  /\ [](mgr.op = "initialize_from_sources" =>
          /\ NoMix
          /\ mgr.pc = "done" => OnlyNew /\ \A i \in cameras : streams[i].running)
  /\ [][mgr.op = "initialize_from_sources" => ClearStep]_vars

\* C17, amended: the same for every string that is not empty; the empty
\* string is handed to initialize_default_cameras, which stops nothing
C17_NonEmptyString ==
  /\ [](mgr.op = "initialize_from_sources" /\ mgr.cfg # << >> =>
          /\ NoMix
          /\ mgr.pc = "done" => OnlyNew /\ \A i \in cameras : streams[i].running)
  /\ [][mgr.op = "initialize_from_sources" /\ mgr.cfg # << >> => ClearStep]_vars

\* a call with a non-empty string found cameras registered and returned
\* with cameras of its own
C17_Witness ==
  /\ SourcesReturned
  /\ mgr.before # {}
  /\ cameras # {}

\* ========================================= claims on _non_max_suppression
BoxesOf(bs) == {bs[k] : k \in 1..Len(bs)}

\* C18: _non_max_suppression applied to its own result returns the same set
\* of boxes, and removes none, whatever areas are equal or boxes duplicated
C18_Idempotent ==
  passes = 2 => BoxesOf(again) = BoxesOf(kept) /\ Len(again) = Len(kept)

\* both calls were made on a list with a duplicated box, of which the first
\* call dropped a box and kept two different boxes of equal area
C18_Witness ==
  /\ passes = 2
  /\ \E i, j \in 1..Len(boxes) : i # j /\ boxes[i] = boxes[j]
  /\ Len(kept) < Len(boxes)
  /\ \E k, m \in 1..Len(kept) : kept[k] # kept[m] /\ Area(kept[k]) = Area(kept[m])

\* the share of b that a covers is above 0.35
Exceeds(a, b) == Inter(a, b) * ThreshDen > ThreshNum * Area(b)

\* the k-th position of the order was kept
KeptAt(k) == \E m \in 1..Len(keep) : keep[m] = order[k]

\* C19: the boxes are taken in descending order of area and the first, a
\* largest one, is kept; a box is dropped iff a box kept before it covers
\* more than 0.35 of its area (at exactly 0.35 it is kept); the result is made
\* of boxes of the input; of two boxes of areas 100 and 80 that share 40 only
\* the one of area 100 is returned
C19_Policy ==
  passes >= 1 =>
    /\ Len(order) = Len(boxes)
    /\ \A k, m \in 1..Len(order) : order[k] = order[m] => k = m
    /\ \A k \in 1..Len(order) - 1 : Area(boxes[order[k]]) >= Area(boxes[order[k + 1]])
    /\ boxes # << >> =>
         /\ keep # << >>
         /\ keep[1] = order[1]
         /\ \A i \in 1..Len(boxes) : Area(boxes[keep[1]]) >= Area(boxes[i])
    /\ \A k \in 1..Len(order) :
         ~KeptAt(k) <=> \E m \in 1..k - 1 : KeptAt(m) /\ Exceeds(boxes[order[m]], boxes[order[k]])
    /\ \A k, m \in 1..Len(keep) : keep[k] = keep[m] => k = m
    /\ Len(kept) = Len(keep)
    /\ \A k \in 1..Len(kept) : kept[k] = boxes[keep[k]]
    /\ BoxesOf(kept) \subseteq BoxesOf(boxes)
    /\ \A i, j \in 1..Len(boxes) :
         (Len(boxes) = 2 /\ Area(boxes[i]) = 100 /\ Area(boxes[j]) = 80
            /\ 2 * Inter(boxes[i], boxes[j]) = Area(boxes[j]))
         => kept = << boxes[i] >>

\* the boxes of areas 100 and 80 and the box at the threshold were given: the
\* first and the last were returned
C19_Witness ==
  /\ passes >= 1
  /\ BoxesOf(boxes) = {Box100, Box80, BoxAtThresh}
  /\ BoxesOf(kept) = {Box100, BoxAtThresh}
  /\ Inter(Box100, BoxAtThresh) * ThreshDen = ThreshNum * Area(BoxAtThresh)

\* ============================================ claims on _map_rotated_rect
Near(a, b) == a - b <= 1 /\ b - a <= 1

\* the rectangle covers the whole rotated frame, which is h wide and w high
CoversRotated ==
  /\ rotation \in {"cw", "ccw"}
  /\ rect = << 0, 0, original_shape[1], original_shape[2] >>

\* C20: the rectangle that covers the frame rotated by 90 degrees is mapped
\* back, for 'cw' and for 'ccw', to x and y within 1 of 0, a width within 1 of
\* the frame's width and a height within 1 of the frame's height
C20_RoundTrip ==
  (mapped # << >> /\ CoversRotated) =>
    /\ Near(mapped[1], 0)
    /\ Near(mapped[2], 0)
    /\ Near(mapped[3], original_shape[2])
    /\ Near(mapped[4], original_shape[1])

\* the covering rectangle of a frame that is not square was mapped back, one
\* pixel narrower than the frame
C20_Witness ==
  /\ mapped # << >>
  /\ CoversRotated
  /\ original_shape[1] # original_shape[2]
  /\ mapped[3] = original_shape[2] - 1

\* ================================================== claims on detect_faces
\* the last n values of a list
LastN(s, n) == SubSeq(s, IF Len(s) > n THEN Len(s) - n + 1 ELSE 1, Len(s))

\* the window of the most recent raw counts when the first n had arrived
WindowAt(c, n) == LastN(SubSeq(arrived[c], 1, n), smoothing_window)

C21_ReturnStep ==
  \A p \in DetCallers :
    (det[p].pc = "D98" /\ det'[p].pc = "idle") =>
      /\ det'[p].ret = current_counts[det[p].cam]
      /\ \E n \in det[p].at .. Len(arrived[det[p].cam]) :
           det'[p].ret = TruncMedian(WindowAt(det[p].cam, n))

\* C21: the count a detect_faces call returns, which is the one stored in
\* current_counts, is the truncated median of the camera's window of the most
\* recent raw counts (at most smoothing_window of them) as it stood at some
\* moment from the call's own sample on; the window 2, 2, 2, 9, 2 gives 2
C21_Median ==
  /\ [](TruncMedian(<< FewFaces, FewFaces, FewFaces, ManyFaces, FewFaces >>) = FewFaces)
  /\ [][C21_ReturnStep]_vars

\* no detect_faces call is in progress
DetQuiet == \A p \in DetCallers : det[p].pc = "idle"

\* C22: once the detect_faces calls made have all returned, each camera's
\* list holds the most recent raw counts, at most smoothing_window of them,
\* in the order they arrived
C22_Window ==
  DetQuiet =>
    \A c \in Cameras :
      /\ Len(recent_counts[c]) <= smoothing_window
      /\ recent_counts[c] = LastN(arrived[c], smoothing_window)

\* ============================================== claims on FaceRecognizer

FoundNone(c) ==
  fc[c].op = "detect_and_match" /\ fc[c].checked /\ ~fc[c].stored

\* the call returned the frame it was given, no match and no face, and ran
\* neither the detection nor a signature computation
NoOp(r) ==
  /\ r.pc = "idle"
  /\ ~r.raised
  /\ ~r.ran
  /\ ~r.computed
  /\ ~r.copied
  /\ ~r.match
  /\ r.faces = 0

\* line 203 is evaluated with no reference stored and the call returns there
C24_CheckStep ==
  \A c \in FaceCallers :
    (fc[c].pc = "M203" /\ fc'[c] # fc[c] /\ ~HasReference) => NoOp(fc'[c])

\* a clear_reference call of caller c returns and no upload ran beside it:
\* the calls of the others began before it and are no uploads
C24_ClearStep ==
  \A c \in FaceCallers :
    (/\ fc[c].pc = "C243"
     /\ fc'[c].pc = "idle"
     /\ \A o \in FaceCallers \ {c} :
          fc[o].id < fc[c].id /\ fc[o].op # "upload_reference_face")
    => ~HasReference'

\* C24: with no reference stored (in the initial state, and after a
\* clear_reference) detect_and_match returns its input frame, match False and
\* count 0 without running detection or signature computation, and a call
\* reports a match only for a stored reference that it compared the face with.
C24_NoReference ==
  /\ (\A c \in FaceCallers : fc[c].pc = "idle" /\ fc[c].op = "none") => ~HasReference
  /\ [](\A c \in FaceCallers :
          /\ FoundNone(c) => NoOp(fc[c])
          /\ fc[c].match => fc[c].stored /\ fc[c].sig # 0)
  /\ [][C24_CheckStep /\ C24_ClearStep]_vars

\* a clear_reference has returned and the detect_and_match that began after
\* it found no reference and returned at line 204
C24_Witness ==
  \E c \in FaceCallers, o \in FaceCallers :
    /\ fc[o].op = "clear_reference" /\ fc[o].pc = "idle"
    /\ fc[c].id > fc[o].id
    /\ FoundNone(c) /\ NoOp(fc[c])
    /\ nface = MaxFaceOps

\* no FaceRecognizer call is in progress
FaceQuiet == \A c \in FaceCallers : fc[c].pc = "idle"

\* the reference fields are those written by the one upload u, or all cleared
WholeUpload(u) ==
  /\ reference_name = u
  /\ IF engine = "facenet"
     THEN reference_embedding = u
     ELSE /\ reference_template = u
          /\ reference_descriptors = u
          /\ reference_histogram = u

Cleared ==
  /\ reference_embedding = 0
  /\ reference_template = 0
  /\ reference_descriptors = 0
  /\ reference_histogram = 0
  /\ reference_name = 0

\* C25: upload and clear are atomic with respect to each other and to
\* matching: the reference state left when all calls have finished is that of
\* one completed upload or the cleared state, and a detect_and_match that
\* reports a match labels it with the name uploaded with the signature it
\* compared, never with a mixture of two states.
C25_Atomic ==
  /\ FaceQuiet => (Cleared \/ \E u \in 1..MaxFaceOps : WholeUpload(u))
  /\ \A c \in FaceCallers :
       (fc[c].pc = "idle" /\ fc[c].match /\ ~fc[c].raised) => fc[c].label = fc[c].sig

\* C26: an upload_reference_face that returns False has assigned no
\* reference field and not reference_name: what was stored before the call
\* is still in force.
C26_FailedUpload ==
  \A c \in FaceCallers :
    (fc[c].op = "upload_reference_face" /\ fc[c].pc = "idle" /\ ~fc[c].result)
      => ~fc[c].wrote

\* ============================================== claims on WeaponDetector

\* the call of pipeline p has returned
WdReturned(p) == wd[p].pc = "idle" /\ wd[p].cam # -1

\* the call returned the frame it was given, with no weapon and no detection
Unmodified(r) == r.out = r.frame /\ ~r.weapon_detected /\ r.detections = 0

\* line 102 is evaluated with the backend not loaded and the call returns there
C27_CheckStep ==
  \A p \in WdCallers :
    (wd[p].pc = "W102" /\ wd'[p] # wd[p] /\ ~model_loaded)
      => (wd'[p].pc = "idle" /\ Unmodified(wd'[p]))

\* C27: with model_loaded False every detect_weapons call returns the frame
\* it was given, weapon_detected False and an empty list; no call invokes the
\* backend, takes the inference lock or reads or writes the cache.
C27_Degraded ==
  /\ [](~model_loaded =>
          /\ inference_lock = 0
          /\ \A c \in Cameras : wcache[c] = NoWCache /\ invoked[c] = << >>
          /\ \A p \in WdCallers :
               /\ wd[p].pc \in {"idle", "W102"}
               /\ ~wd[p].looked /\ ~wd[p].hit /\ ~wd[p].locked
               /\ ~wd[p].ran /\ ~wd[p].failed
               /\ WdReturned(p) => Unmodified(wd[p]))
  /\ [][C27_CheckStep]_vars

\* the backend never loaded and all the calls of the run have returned the
\* frames they were given, for both pipelines
C27_Witness ==
  /\ ~model_loaded
  /\ nwd = MaxWeapon
  /\ \A p \in WdCallers : WdReturned(p) /\ Unmodified(wd[p])

\* the calls whose backend invocation (line 114) is running
InFlight == {p \in WdCallers : wd[p].pc = "W114"}

\* an invocation ends, by returning or by raising, and the lock is free after it
C28_ReleaseStep ==
  \A p \in WdCallers :
    (wd[p].pc = "W114" /\ wd'[p].pc # "W114")
      => (inference_lock' = 0 /\ wd'[p].pc \in {"W116", "W159"})

\* C28: at most one backend inference is in flight at any time, over both
\* cameras and both pipelines; the caller in flight holds the inference lock,
\* and the lock is released when the invocation ends, also when it raises.
C28_OneInFlight ==
  /\ [](/\ Cardinality(InFlight) <= 1
        /\ \A p \in InFlight : inference_lock = p
        /\ InFlight = {} => inference_lock = 0)
  /\ [][C28_ReleaseStep]_vars

\* an invocation raised and its call has returned; the other pipeline's
\* invocation, for the other camera, is in flight and holds the lock
C28_Witness ==
  \E p \in WdCallers, q \in WdCallers :
    /\ wd[q].pc = "idle" /\ wd[q].failed
    /\ p \in InFlight
    /\ inference_lock = p
    /\ wd[p].cam # wd[q].cam

\* the backend invocations for camera c that returned a result
Succeeded(c) == {i \in 1..Len(invoked[c]) : invoked[c][i].ok}

\* C29: of the detect_weapons requests for one camera that fall within one
\* cache_ttl window, at most one invokes the backend (and gets a result): any
\* two such invocations for the same camera belong to requests whose cache
\* lookups are more than cache_ttl apart.
C29_OncePerWindow ==
  \A c \in Cameras :
    \A i \in Succeeded(c), j \in Succeeded(c) :
      i < j => invoked[c][j].at - invoked[c][i].at > cache_ttl

\* C30: a backend invocation that raised leaves no cache entry behind: the
\* frame cache holds, for the 'weapon' and the 'all' stage, the placeholder or
\* a frame the threat stage returned a result for (the backend is loaded, so
\* a frame without that result comes from a failed invocation).
C30_FailureNotCached ==
  \A c \in Cameras, s \in {"weapon", "all"} :
    LET e == Entry(c, s) IN
      (e # NoEntry /\ "placeholder" \notin e.frame.ann) => "weapon" \in e.frame.ann

\* ============================================= claims on failure isolation

\* thread t holds none of the locks: no per-key lock object, no stream's
\* frame lock, not the inference lock
HoldsNothing(t) ==
  /\ \A o \in Keys \X LockIds : lock_holder[o] # t
  /\ \A c \in Cameras : camLock[c] # t
  /\ inference_lock # t

\* a stage raises in the call of thread t: the lock of its key is free
\* afterwards, no entry of the frame cache has changed, and the call is over
C31_RaiseStep ==
  \A t \in Threads :
    (ret[t].how = "pending" /\ ret'[t].how = "raised")
      => /\ InBody(t)
         /\ lock_holder[LockObj(t)] = t
         /\ lock_holder'[LockObj(t)] = 0
         /\ processed_frames' = processed_frames
         /\ th'[t].pc = "idle"

InsideRotated ==
  /\ rect[1] + rect[3] <= original_shape[1]
  /\ rect[2] + rect[4] <= original_shape[2]

\* the pixels of the original frame that the rotation moved into the rectangle
SourcePixels ==
  LET h == original_shape[1]
      w == original_shape[2]
  IN {p \in (0..(w - 1)) \X (0..(h - 1)) :
        LET q == RotatedPos(p, h, w, rotation) IN
          /\ rect[1] <= q[1] /\ q[1] < rect[1] + rect[3]
          /\ rect[2] <= q[2] /\ q[2] < rect[2] + rect[4]}

\* pixel p lies in the box b = (x, y, width, height), up to 1 pixel
InBoxNear(p, b) ==
  /\ b[1] - 1 <= p[1] /\ p[1] <= b[1] + b[3] + 1
  /\ b[2] - 1 <= p[2] /\ p[2] <= b[2] + b[4] + 1

\* C32: for a rectangle found in the frame rotated clockwise or counter-
\* clockwise, every pixel of the original frame that the rotation moved into
\* the rectangle lies inside the mapped box, up to 1 pixel.
C32_Inverse ==
  (mapped # << >> /\ rotation \in {"cw", "ccw"} /\ InsideRotated) =>
    \A p \in SourcePixels : InBoxNear(p, mapped)

\* ================================================= claims on termination
\* no request waits for itself, and no two requests wait for each other
NoCyclicWait ==
  \A t, u \in Threads : ~(WaitsOn(t, u) /\ WaitsOn(u, t))

\* a lock that is held is held by a request that is running
HeldByRunning ==
  /\ \A o \in Keys \X LockIds : lock_holder[o] # 0 => th[lock_holder[o]].pc # "idle"
  /\ \A c \in Cameras : camLock[c] # 0 => th[camLock[c]].pc # "idle"
  /\ inference_lock # 0 => th[inference_lock].pc # "idle"

C33_Returns == \A t \in Threads : (th[t].pc # "idle") ~> (th[t].pc = "idle")

\* C33: every process_frame request eventually returns (or raises) when each
\* detector call, device read and encode ends: the requests never wait for
\* each other in a cycle over the per-key locks, the streams' frame locks and
\* the inference lock, and no lock is held by a request that has ended.
C33_Terminates == [](NoCyclicWait /\ HeldByRunning) /\ C33_Returns

\* a 'weapon' request waits for the inference lock, which an 'all' request for
\* the same camera holds; each holds the lock of its own key
C33_Witness ==
  \E t \in Threads : \E u \in Threads \ {t} :
    /\ WaitsOnInference(t, u)
    /\ lock_holder[LockObj(t)] = t
    /\ lock_holder[LockObj(u)] = u
    /\ th[t].key # th[u].key

\* ===================================================== claims on start/stop
\* C34: in every state at most one acquisition loop of the stream is running,
\* so the frame slot has a single writer, whatever start() and stop() calls
\* were made.
C34_SingleLoop == Cardinality({l \in LoopIds : Alive(l)}) <= 1

\* a stop() call has returned, no call is in progress, and no start() has set
\* the running flag since
Stopped ==
  /\ \A c \in Callers : call[c].pc = "idle"
  /\ \E c \in Callers : call[c].op = "stop" /\ call[c].result = "stopped"
  /\ ~running

\* C35: once stop() has returned and no later start() is issued, a device
\* handle that is released stays released: no step of an acquisition loop
\* opens the device again, and the loop's reopen is never taken while running
\* is False.
C35_StayStep ==
  /\ (Stopped /\ cap # "open") => cap' # "open"
  /\ \A l \in LoopIds : (loops[l].pc = "open" /\ loops'[l].pc # "open") => running

C35_StaysReleased == [][C35_StayStep]_vars

\* =============================================== claims on the threat image
\* C36: the image published for a key (camera, 'weapon') is a raw frame of
\* that camera with at most the threat stage's annotations (or the
\* placeholder): it never carries the crowd or identity annotations of an
\* 'all' run.
C36_WeaponOnly ==
  \A c \in Cameras :
    Entry(c, "weapon") # NoEntry
    => /\ Entry(c, "weapon").frame.cam = c
       /\ Entry(c, "weapon").frame.ann \cap {"crowd", "face"} = {}

====
